---- MODULE Spec2Model ----
(***************************************************************************)
(* ZeroTrace enrichment core (src/enrichment-python/app):                  *)
(*   core/cache.py            CacheManager (in-process TTLCache + Redis)   *)
(*   services/cpe_matcher.py  SemanticCPEMatcher.match_software            *)
(*   services/enrichment.py   EnrichmentService (batch pipeline)           *)
(*   version_matcher.py       VersionComparison, VersionRange,             *)
(*                            CPEVersionMatcher                            *)
(*   cve_enrichment.py        CVEEnrichmentService.enrich_software         *)
(*   cpe_guesser_client.py    LRUCache, CPEGuesserClient.guess_cpe         *)
(*   ai_matching/cpe_matcher.py  CPEMatcher.get_cpe_for_software           *)
(*   batch_enrichment.py      BatchEnrichmentService.process_batch         *)
(*                                                                         *)
(* Specifications:                                                         *)
(*   Spec         the batch pipeline over the shared cache                 *)
(*   FairSpec     Spec with the scheduling fairness of the asyncio loop    *)
(*   CacheSpec    CacheManager driven directly by get/set/delete           *)
(*   MatchSpec    match_software applied to bounded inputs                 *)
(*   VersionSpec  compare_versions, matches_version, match_cpe_version     *)
(*   CveSpec      enrich_software over a bounded list                      *)
(*   LruSpec      LRUCache driven by get/set and the clock                 *)
(*   NetSpec      the external calls, their retries and their waits        *)
(*   FairNetSpec  NetSpec with replies and timers that do arrive           *)
(*   SelectSpec   the identifier chosen for one item                       *)
(*   BatchSpec    process_batch calls over the Redis cache                 *)
(***************************************************************************)
EXTENDS Integers, Sequences, FiniteSets, TLC

VARIABLES
    \* ---- CacheManager (core/cache.py) ----
    enabled,        \* self.enabled = settings.cache_enabled
    redis_client,   \* self.redis_client is not None
    l1_cache,       \* self.l1_cache: TTLCache, least recently used first
    redis_data,     \* the distributed tier: key -> serialized text
    cacheOp,        \* CacheSpec: the last CacheManager call and its outcome
    \* ---- SemanticCPEMatcher.match_software (services/cpe_matcher.py) ----
    matchIn,        \* MatchSpec: the call's arguments and environment
    matchOut,       \* MatchSpec: what the call returned and which calls it issued
    \* ---- VersionComparison / VersionRange (version_matcher.py) ----
    verIn,          \* VersionSpec: the arguments of the call
    verOut,         \* VersionSpec: what the call returned
    \* ---- CVEEnrichmentService.enrich_software (cve_enrichment.py) ----
    cveList,        \* software_list
    cvePos,         \* the loop's position: 0 not called, n in item n, Len + 1 returned
    enriched_results,
    cveCache,       \* self.cache: cache_key -> cves
    cveRaised,      \* history: per item, whether its try block raised
    \* ---- settings read by the pipeline (core/config.py) ----
    cpe_guesser_enabled,
    pgvector_enabled,
    max_concurrent_requests,
    \* ---- EnrichmentService (services/enrichment.py) ----
    sem_value,      \* self.sem._value
    sem_waiters,    \* self.sem._waiters, first come first
    software_list,  \* per batch: the list passed to enrich_software
    phase,          \* per batch: "idle", "gather" or "returned"
    task,           \* per batch, per index: the _enrich_single_item coroutine
    results,        \* per batch: the list enrich_software returned
    fresh,          \* history: per cache key, what a miss wrote and is still unexpired
    \* ---- LRUCache (cpe_guesser_client.py) ----
    lru,            \* LruSpec: [cache, timestamps] of one LRUCache
    lru_now,        \* LruSpec: time.time()
    lruOp,          \* LruSpec: the last call on the cache and its outcome
    \* ---- external calls: _get_vulns_from_nvd, fetch_nvd_data (enrichment.py),
    \*      _make_api_request (ultra_optimized_enrichment.py), guess_cpe ----
    net,            \* NetSpec: the call in progress, its attempts and its outcome
    \* ---- CPEMatcher (ai_matching/cpe_matcher.py) ----
    selIn,          \* SelectSpec: the query version and the index rows by similarity
    selOut,         \* SelectSpec: what the selection returned
    \* ---- BatchEnrichmentService (batch_enrichment.py) ----
    bat             \* BatchSpec: the service, its Redis data and the process_batch call

cacheVars == <<enabled, redis_client, l1_cache, redis_data>>
matchVars == <<matchIn, matchOut>>
cveVars == <<cveList, cvePos, enriched_results, cveCache, cveRaised>>
lruVars == <<lru, lru_now, lruOp>>
restVars == <<selIn, selOut, bat>>
clientVars == <<lruVars, net, restVars>>
callVars == <<verIn, verOut, cveVars, clientVars>>
settingVars == <<cpe_guesser_enabled, pgvector_enabled, max_concurrent_requests>>
pipeVars == <<sem_value, sem_waiters, software_list, phase, task, results, fresh>>
vars == <<enabled, redis_client, l1_cache, redis_data, cacheOp, matchIn, matchOut,
          verIn, verOut, cveList, cvePos, enriched_results, cveCache, cveRaised,
          cpe_guesser_enabled, pgvector_enabled, max_concurrent_requests,
          sem_value, sem_waiters, software_list, phase, task, results, fresh,
          lru, lru_now, lruOp, net, selIn, selOut, bat>>

(***************************************************************************)
(* Bounds of the model.  The program's sizes (1000 entries, 300 s, 1000    *)
(* concurrent requests) are scaled down so that eviction, expiry and       *)
(* waiting for the semaphore happen within a few steps.                    *)
(***************************************************************************)
L1_MAXSIZE == 2
L1_TTL == 1
MaxConcurrent == 2
MaxBatch == 2
NBatches == 2
MaxTasks == 2

(***************************************************************************)
(* Python values.  A value is a tagged record; v is always a sequence.     *)
(*   list  v = the elements                                                *)
(*   str   v = <<characters>>                                              *)
(*   int   v = <<decimal digits>>                                          *)
(*   none  v = <<>>                                                        *)
(***************************************************************************)
None == [t |-> "none", v |-> <<>>]
PyList(s) == [t |-> "list", v |-> s]
PyStr(s) == [t |-> "str", v |-> <<s>>]
PyInt(d) == [t |-> "int", v |-> <<d>>]

\* Python truthiness: None, [], "" and 0 are falsy.
Truthy(x) ==
    CASE x.t = "none" -> FALSE
      [] x.t = "list" -> x.v # <<>>
      [] x.t = "str"  -> x.v # <<"">>
      [] x.t = "int"  -> x.v # <<"0">>
      [] OTHER        -> TRUE

NumericTexts == {"0", "5"}

\* json.dumps(value) for dict/list, str(value) otherwise (cache.py:88-91).
Serialize(value) ==
    IF value.t = "list"
    THEN [form |-> "json", body |-> value.v]
    ELSE [form |-> "raw", body |-> value.v]

\* json.loads(data): a JSON array gives the list back, bare digits give an
\* int, any other text raises JSONDecodeError.
JsonDecodable(data) ==
    \/ data.form = "json"
    \/ data.form = "raw" /\ Len(data.body) = 1 /\ data.body[1] \in NumericTexts

JsonLoads(data) ==
    IF data.form = "json" THEN PyList(data.body) ELSE [t |-> "int", v |-> data.body]

\* `if data:` on the text Redis returned (decode_responses=True).
TextTruthy(data) == ~(data.form = "raw" /\ data.body = <<"">>)

(***************************************************************************)
(* The software items of the model and the cache keys they give.           *)
(* A Python string that the code splits on whitespace is kept as the       *)
(* sequence of its words; dict = FALSE is an element of the list that is   *)
(* not a mapping (jobs.py:128-133 passes the payload's list through        *)
(* unchecked), on which item.get raises AttributeError.                    *)
(***************************************************************************)
ItemNginx == [dict |-> TRUE, name |-> <<"nginx">>, version |-> "1.18.0", vendor |-> <<"nginx">>]
ItemHttpd == [dict |-> TRUE, name |-> <<"http", "server">>, version |-> "2.4", vendor |-> <<"Apache">>]
ItemUnknown == [dict |-> TRUE, name |-> <<"totally-unknown-pkg">>, version |-> "0.0.1", vendor |-> <<>>]
ItemMalformed == [dict |-> FALSE, name |-> <<"nginx==1.18">>, version |-> "", vendor |-> <<>>]

WellFormedItems == {ItemNginx, ItemHttpd, ItemUnknown}
Items == WellFormedItems \cup {ItemMalformed}

\* cache_key = f"enrich:{name}:{version}:{vendor}" (enrichment.py:92).  No
\* field of the model's items holds a colon, so the three fields can be
\* read back from the key and the key is kept as the tuple.
cache_key(name, version, vendor) == <<"enrich", name, version, vendor>>

CacheKeys == {cache_key(i.name, i.version, i.vendor) : i \in WellFormedItems}

(***************************************************************************)
(* cachetools.TTLCache as CacheManager uses it (cache.py:23): a sequence   *)
(* of entries, least recently used first, each with the time since it was  *)
(* stored.  An entry is live while age < ttl.                              *)
(***************************************************************************)
L1Live(e) == e.age < L1_TTL

\* TTLCache.expire
L1Expire(c) == SelectSeq(c, L1Live)

\* key in self.l1_cache
L1Contains(c, key) == \E i \in 1..Len(c) : c[i].key = key /\ L1Live(c[i])

L1Entry(c, key) == c[CHOOSE i \in 1..Len(c) : c[i].key = key]

L1Without(c, key) == SelectSeq(c, LAMBDA e : e.key # key)

\* variant: a read leaves the order of the entries alone
L1TouchNoMove(c, key) == c

\* self.l1_cache[key]: the read marks the entry most recently used
L1Touch(c, key) == Append(L1Without(c, key), L1Entry(c, key))

\* self.l1_cache[key] = value: expired entries go first; a new key evicts
\* from the head while the cache is full; the entry is stored at the tail
\* with a fresh ttl.
L1SetItem(c, key, value) ==
    LET live == L1Expire(c)
        kept == IF \E i \in 1..Len(live) : live[i].key = key
                THEN L1Without(live, key)
                ELSE IF Len(live) >= L1_MAXSIZE
                     THEN SubSeq(live, Len(live) - L1_MAXSIZE + 2, Len(live))
                     ELSE live
    IN  Append(kept, [key |-> key, value |-> value, age |-> 0])

\* del self.l1_cache[key]
L1DelItem(c, key) == L1Without(c, key)

\* one unit of time passes
L1Age(c) == L1Expire([i \in 1..Len(c) |-> [c[i] EXCEPT !.age = @ + 1]])

(***************************************************************************)
(* CacheManager (cache.py).  fail: the Redis call of this invocation       *)
(* raises.  Each operator gives the call's outcome and the tiers after it. *)
(***************************************************************************)
\* CacheManager.get up to the Redis call, cache.py:48-57: answered says
\* whether get returns without awaiting Redis
CacheManager_get_l1(key) ==
    IF ~enabled
    THEN [answered |-> TRUE, ret |-> None, l1 |-> l1_cache]
    ELSE IF L1Contains(l1_cache, key)
    THEN [answered |-> TRUE, ret |-> L1Entry(l1_cache, key).value,
          l1 |-> L1Touch(l1_cache, key)]
    ELSE [answered |-> ~redis_client, ret |-> None, l1 |-> l1_cache]

\* CacheManager.get from the Redis reply on, cache.py:58-72
CacheManager_get_l2(key, fail) ==
    IF fail \/ key \notin DOMAIN redis_data
    THEN [ret |-> None, l1 |-> l1_cache, redis_called |-> TRUE, raised |-> FALSE]
    ELSE LET data == redis_data[key] IN
         IF ~TextTruthy(data)
         THEN [ret |-> None, l1 |-> l1_cache, redis_called |-> TRUE, raised |-> FALSE]
         ELSE IF JsonDecodable(data)
         THEN [ret |-> JsonLoads(data), l1 |-> L1SetItem(l1_cache, key, JsonLoads(data)),
               redis_called |-> TRUE, raised |-> FALSE]
         ELSE [ret |-> [t |-> "str", v |-> data.body], l1 |-> l1_cache,
               redis_called |-> TRUE, raised |-> FALSE]

\* variant: get asks Redis only, the in-process tier is never read
CacheManager_get_redis_only(key, fail) ==
    IF ~enabled \/ ~redis_client
    THEN [ret |-> None, l1 |-> l1_cache, redis_called |-> FALSE, raised |-> FALSE]
    ELSE CacheManager_get_l2(key, fail)

\* CacheManager.get, cache.py:46-72
CacheManager_get(key, fail) ==
    LET first == CacheManager_get_l1(key) IN
    IF first.answered
    THEN [ret |-> first.ret, l1 |-> first.l1, redis_called |-> FALSE, raised |-> FALSE]
    ELSE CacheManager_get_l2(key, fail)

\* variant: set writes the in-process tier only when there is no Redis
SetL1SkippedWhenRedis(key, value) ==
    IF ~enabled \/ redis_client THEN l1_cache ELSE L1SetItem(l1_cache, key, value)

\* CacheManager.set, the in-process half: cache.py:76-82
CacheManager_set_l1(key, value) ==
    IF ~enabled THEN l1_cache ELSE L1SetItem(l1_cache, key, value)

\* variant: setex adds the new list to the text Redis already holds
CacheManager_set_l2_appending(key, value, fail) ==
    IF enabled /\ redis_client /\ ~fail
    THEN [k \in DOMAIN redis_data \cup {key} |->
            IF k # key THEN redis_data[k]
            ELSE IF key \in DOMAIN redis_data /\ value.t = "list"
            THEN [form |-> "json", body |-> redis_data[key].body \o value.v]
            ELSE Serialize(value)]
    ELSE redis_data

\* CacheManager.set, the distributed half: cache.py:84-95
CacheManager_set_l2(key, value, fail) ==
    IF enabled /\ redis_client /\ ~fail
    THEN [k \in DOMAIN redis_data \cup {key} |->
            IF k = key THEN Serialize(value) ELSE redis_data[k]]
    ELSE redis_data

\* variant: delete removes the key from Redis only
CacheManager_delete_redis_only(key, fail) ==
    [l1 |-> l1_cache,
     redis |-> IF redis_client /\ ~fail
               THEN [k \in DOMAIN redis_data \ {key} |-> redis_data[k]]
               ELSE redis_data,
     raised |-> FALSE]

\* CacheManager.delete, cache.py:97-106
CacheManager_delete(key, fail) ==
    [l1 |-> IF L1Contains(l1_cache, key) THEN L1DelItem(l1_cache, key) ELSE l1_cache,
     redis |-> IF redis_client /\ ~fail
               THEN [k \in DOMAIN redis_data \ {key} |-> redis_data[k]]
               ELSE redis_data,
     raised |-> FALSE]

(***************************************************************************)
(* CacheSpec: one caller drives CacheManager; cacheOp records the last     *)
(* call.  A get that directly follows a set of the same key carries that   *)
(* set's value in arg and has follows_set = TRUE.                          *)
(***************************************************************************)
\* A vulnerability dict: origin "row" is built from a database row
\* (enrichment.py:193-197), "nvd" from the feed (enrichment.py:335-342);
\* intel and kev are what _enrich_with_threat_intel adds.
Vuln(id, origin) == [id |-> id, origin |-> origin, intel |-> FALSE, kev |-> FALSE]

CacheValues == {PyList(<<Vuln("CVE-2021-23017", "row")>>), PyStr("pending")}

\* history of a cache key: the list the last miss wrote for it and how long
\* ago (live: less than the in-process ttl ago)
NoFresh == [live |-> FALSE, vulns |-> <<>>, age |-> 0]

NoOp == [op |-> "none", key |-> <<>>, arg |-> None, ret |-> None,
         raised |-> FALSE, redis_called |-> FALSE, redis_failed |-> FALSE,
         follows_set |-> FALSE,
         \* a set: the keys it dropped for room, and the oldest-inserted and
         \* the least recently used key before it
         evicted |-> {}, oldest |-> <<>>, lru |-> <<>>,
         \* history: the keys that a delete with Redis reachable removed and
         \* no set has written since; the in-process keys by insertion and
         \* by last use, oldest first
         deleted |-> {}, inserted |-> <<>>, used |-> <<>>]

\* the keys of in-process entries, and a key list cut down to them
L1Keys(c) == {c[n].key : n \in 1..Len(c)}
KeptKeys(keys, c) == SelectSeq(keys, LAMBDA k : k \in L1Keys(c))
MovedLast(keys, key) == Append(SelectSeq(keys, LAMBDA k : k # key), key)

\* the history after a step that leaves the in-process tier as c
Quiet(c) == [NoOp EXCEPT !.deleted = cacheOp.deleted,
                         !.inserted = KeptKeys(cacheOp.inserted, c),
                         !.used = KeptKeys(cacheOp.used, c)]

PipeIdle ==
    /\ sem_value = max_concurrent_requests
    /\ sem_waiters = <<>>
    /\ software_list = [b \in 1..NBatches |-> <<>>]
    /\ phase = [b \in 1..NBatches |-> "idle"]
    /\ task = [b \in 1..NBatches |-> <<>>]
    /\ results = [b \in 1..NBatches |-> <<>>]
    /\ fresh = [k \in CacheKeys |-> NoFresh]

MatchIdle ==
    /\ matchIn = <<>>
    /\ matchOut = [done |-> FALSE, matches |-> <<>>, calls |-> <<>>]

VersionIdle ==
    /\ verIn = <<>>
    /\ verOut = <<>>

\* CVEEnrichmentService.__init__, cve_enrichment.py:21-30
CveIdle ==
    /\ cveList = <<>>
    /\ cvePos = 0
    /\ enriched_results = <<>>
    /\ cveCache = <<>>
    /\ cveRaised = <<>>

\* LRUCache.__init__, cpe_guesser_client.py:19-23
EmptyLru == [cache |-> <<>>, timestamps |-> <<>>]

NoLruOp == [op |-> "none", key |-> "", hit |-> FALSE, value |-> <<>>,
            \* a get: the age of the entry it found (-1: none)
            age |-> -1,
            \* a set: the keys it removed, the time the removed entry was
            \* written, whether the key was new and the cache full
            evicted |-> {}, evicted_stamp |-> -1, overflow |-> FALSE,
            \* history: the least recently used key before the call, and the
            \* cached keys by their last use (a get that returned the entry
            \* or a set), oldest first
            lru_key |-> "", used |-> <<>>]

LruIdle ==
    /\ lru = EmptyLru
    /\ lru_now = 0
    /\ lruOp = NoLruOp

\* no external call yet.  log has one entry per request sent: the reply
\* and the sleeps (in ms) that followed it
NoCall == [site |-> "", pc |-> "idle", attempt |-> 0, log |-> <<>>,
           ret |-> [kind |-> "none", value |-> <<>>],
           words |-> <<>>, use_cache |-> FALSE]

NetIdle == net = NoCall

SelIdle ==
    /\ selIn = <<>>
    /\ selOut = <<>>

BatIdle == bat = <<>>

RestIdle == SelIdle /\ BatIdle

ClientIdle == LruIdle /\ NetIdle /\ RestIdle

CallsIdle == VersionIdle /\ CveIdle /\ ClientIdle

\* CacheManager.__init__, cache.py:20-27
CacheInit ==
    /\ enabled \in BOOLEAN
    /\ redis_client = FALSE
    /\ l1_cache = <<>>
    /\ redis_data = <<>>

CacheSpecInit ==
    /\ CacheInit
    /\ cacheOp = NoOp
    /\ MatchIdle
    /\ CallsIdle
    /\ cpe_guesser_enabled = TRUE
    /\ pgvector_enabled = TRUE
    /\ max_concurrent_requests = MaxConcurrent
    /\ PipeIdle

\* CacheManager.initialize, cache.py:29-44: ok is the outcome of the ping
CacheInitialize(ok) ==
    /\ enabled
    /\ redis_client' = ok
    /\ UNCHANGED <<enabled, l1_cache, redis_data>>

CGet(key, fail) ==
    LET r == CacheManager_get(key, fail)
        now_l1 == key \in L1Keys(r.l1)
    IN
    /\ l1_cache' = r.l1
    /\ cacheOp' = [Quiet(r.l1) EXCEPT
                   !.op = "get", !.key = key,
                   !.arg = IF cacheOp.op = "set" /\ cacheOp.key = key
                           THEN cacheOp.arg ELSE None,
                   !.ret = r.ret, !.raised = r.raised,
                   !.redis_called = r.redis_called,
                   !.redis_failed = IF cacheOp.op = "set" /\ cacheOp.key = key
                                    THEN cacheOp.redis_failed ELSE FALSE,
                   !.follows_set = cacheOp.op = "set" /\ cacheOp.key = key,
                   !.inserted = IF now_l1 /\ ~L1Contains(l1_cache, key)
                                THEN MovedLast(KeptKeys(cacheOp.inserted, r.l1), key)
                                ELSE KeptKeys(cacheOp.inserted, r.l1),
                   !.used = IF now_l1
                            THEN MovedLast(KeptKeys(cacheOp.used, r.l1), key)
                            ELSE KeptKeys(cacheOp.used, r.l1)]
    /\ UNCHANGED <<enabled, redis_client, redis_data, matchVars, settingVars, callVars, pipeVars>>

CSet(key, value, fail) ==
    LET l1 == CacheManager_set_l1(key, value)
        live == L1Expire(l1_cache)
        inserted == KeptKeys(cacheOp.inserted, live)
        used == KeptKeys(cacheOp.used, live)
        evicted == L1Keys(live) \ L1Keys(l1)
        now_l1 == key \in L1Keys(l1)
    IN
    /\ l1_cache' = l1
    /\ redis_data' = CacheManager_set_l2(key, value, fail)
    /\ cacheOp' = [NoOp EXCEPT !.op = "set", !.key = key, !.arg = value,
                               !.redis_called = enabled /\ redis_client,
                               !.redis_failed = enabled /\ redis_client /\ fail,
                               !.evicted = evicted,
                               !.oldest = IF evicted = {} THEN <<>> ELSE Head(inserted),
                               !.lru = IF evicted = {} THEN <<>> ELSE Head(used),
                               !.deleted = cacheOp.deleted \ {key},
                               !.inserted = IF now_l1 THEN MovedLast(KeptKeys(inserted, l1), key)
                                            ELSE KeptKeys(inserted, l1),
                               !.used = IF now_l1 THEN MovedLast(KeptKeys(used, l1), key)
                                        ELSE KeptKeys(used, l1)]
    /\ UNCHANGED <<enabled, redis_client, matchVars, settingVars, callVars, pipeVars>>

CDelete(key, fail) ==
    LET r == CacheManager_delete(key, fail) IN
    /\ l1_cache' = r.l1
    /\ redis_data' = r.redis
    /\ cacheOp' = [Quiet(r.l1) EXCEPT
                   !.op = "delete", !.key = key, !.raised = r.raised,
                   !.redis_called = redis_client,
                   !.redis_failed = redis_client /\ fail,
                   !.deleted = IF /\ redis_client /\ ~fail
                                  /\ (L1Contains(l1_cache, key) \/ key \in DOMAIN redis_data)
                               THEN cacheOp.deleted \cup {key}
                               ELSE cacheOp.deleted]
    /\ UNCHANGED <<enabled, redis_client, matchVars, settingVars, callVars, pipeVars>>

\* time passes: every in-process entry grows older
Tick ==
    /\ l1_cache # <<>>
    /\ l1_cache' = L1Age(l1_cache)
    /\ UNCHANGED <<enabled, redis_client, redis_data>>

\* the distributed tier drops a key whose own ttl (setex) has run out
RedisExpire(key) ==
    /\ key \in DOMAIN redis_data
    /\ redis_data' = [k \in DOMAIN redis_data \ {key} |-> redis_data[k]]
    /\ UNCHANGED <<enabled, redis_client, l1_cache>>

\* the steps between two calls of the caller
CInitialize(ok) ==
    /\ CacheInitialize(ok)
    /\ cacheOp' = Quiet(l1_cache)
    /\ UNCHANGED <<matchVars, settingVars, callVars, pipeVars>>

CTick ==
    /\ Tick
    /\ cacheOp' = Quiet(L1Age(l1_cache))
    /\ UNCHANGED <<matchVars, settingVars, callVars, pipeVars>>

CRedisExpire(key) ==
    /\ RedisExpire(key)
    /\ cacheOp' = Quiet(l1_cache)
    /\ UNCHANGED <<matchVars, settingVars, callVars, pipeVars>>

CacheSpecNext ==
    \/ \E ok \in BOOLEAN : CInitialize(ok)
    \/ \E key \in CacheKeys, fail \in BOOLEAN : CGet(key, fail)
    \/ \E key \in CacheKeys, value \in CacheValues, fail \in BOOLEAN : CSet(key, value, fail)
    \/ \E key \in CacheKeys, fail \in BOOLEAN : CDelete(key, fail)
    \/ CTick
    \/ \E key \in CacheKeys : CRedisExpire(key)

CacheSpec == CacheSpecInit /\ [][CacheSpecNext]_vars

(***************************************************************************)
(* SemanticCPEMatcher.match_software (services/cpe_matcher.py:122-244).    *)
(* Scores are kept in thousandths (0.95 is 950).                           *)
(***************************************************************************)
CPE_NGINX == "cpe:2.3:a:nginx:nginx"
CPE_NGINX_PLUS == "cpe:2.3:a:f5:nginx_plus"
CPE_HTTPD == "cpe:2.3:a:apache:http_server"
CPE_TOMCAT == "cpe:2.3:a:apache:tomcat"
CPEs == {CPE_NGINX, CPE_NGINX_PLUS, CPE_HTTPD, CPE_TOMCAT}

\* The keyword data of Valkey DB 8, read-only to the matcher:
\* w:<word> sets, s:<word> sorted sets (highest score first), rank:cpe.
WordSet(word) ==
    CASE word = "nginx"  -> {CPE_NGINX, CPE_NGINX_PLUS}
      [] word = "server" -> {CPE_NGINX, CPE_HTTPD, CPE_TOMCAT}
      [] word = "apache" -> {CPE_HTTPD, CPE_TOMCAT}
      [] word = "http"   -> {CPE_HTTPD, CPE_TOMCAT}
      [] OTHER           -> {}

SortedSet(word) ==
    CASE word = "nginx"  -> <<[cpe |-> CPE_NGINX, score |-> 870],
                              [cpe |-> CPE_NGINX_PLUS, score |-> 0]>>
      [] word = "apache" -> <<[cpe |-> CPE_HTTPD, score |-> 640],
                              [cpe |-> CPE_TOMCAT, score |-> 320]>>
      [] OTHER           -> <<>>

\* zrank("rank:cpe", cpe); -1 stands for None (no such member)
RankOf(cpe) ==
    CASE cpe = CPE_NGINX      -> 5
      [] cpe = CPE_HTTPD      -> 3
      [] cpe = CPE_NGINX_PLUS -> 3
      [] OTHER                -> -1

\* w.lower()
Lower(w) == IF w = "Apache" THEN "apache" ELSE w

Take(s, n) == SubSeq(s, 1, IF Len(s) < n THEN Len(s) ELSE n)

RECURSIVE Dedupe(_)
\* list(dict.fromkeys(words)): first occurrences, in order
Dedupe(s) ==
    IF s = <<>> THEN <<>>
    ELSE LET front == Dedupe(SubSeq(s, 1, Len(s) - 1))
             last == s[Len(s)]
         IN  IF \E i \in 1..Len(front) : front[i] = last THEN front ELSE Append(front, last)

\* [w.lower() for w in text.split() if len(w) > 2]
LongWords(text) ==
    LET long == SelectSeq(text, LAMBDA w : Len(w) > 2)
    IN  [i \in 1..Len(long) |-> Lower(long[i])]

\* words, cpe_matcher.py:149-158
SearchWords(vendor, product) == Dedupe(LongWords(vendor) \o LongWords(product))

RECURSIVE InsertByRank(_, _)
\* ranked_results.sort(key=rank, reverse=True) is stable: an element goes
\* behind the elements of equal rank already placed
InsertByRank(sorted, e) ==
    IF sorted = <<>> THEN <<e>>
    ELSE IF sorted[1].rank >= e.rank
         THEN <<sorted[1]>> \o InsertByRank(Tail(sorted), e)
         ELSE <<e>> \o sorted

RECURSIVE SortByRank(_)
SortByRank(s) ==
    IF s = <<>> THEN <<>>
    ELSE InsertByRank(SortByRank(SubSeq(s, 1, Len(s) - 1)), s[Len(s)])

\* variant: the keyword sets are united, not intersected
SinterUnion(words) == UNION {WordSet(words[n]) : n \in 1..Len(words)}

RECURSIVE Sinter(_)
\* rdb.sinter(*word_keys)
Sinter(words) ==
    IF Len(words) = 1 THEN WordSet(words[1])
    ELSE WordSet(words[1]) \cap Sinter(Tail(words))

\* The direct Valkey lookup, cpe_matcher.py:160-207.  order is the order in
\* which Python iterates the set sinter returned.
DirectLookup(words, order) ==
    IF words = <<>> THEN <<>>
    ELSE IF Len(words) = 1
    THEN LET found == Take(Take(SortedSet(words[1]), 10), 5)
         IN  [i \in 1..Len(found) |->
                [cpe |-> found[i].cpe,
                 score |-> IF found[i].score # 0 THEN found[i].score ELSE 900,
                 method |-> "cpe_guesser_direct"]]
    ELSE LET matched_cpes == Sinter(words)
             listed == SelectSeq(order, LAMBDA c : c \in matched_cpes)
             ranked_results == SortByRank(
                 [i \in 1..Len(listed) |->
                    [rank |-> IF RankOf(listed[i]) >= 0 THEN RankOf(listed[i]) ELSE 0,
                     cpe |-> listed[i]]])
             top == Take(ranked_results, 5)
         IN  [i \in 1..Len(top) |->
                [cpe |-> top[i].cpe, score |-> 950 - 50 * (i - 1),
                 method |-> "cpe_guesser_direct"]]

\* The calls the direct lookup sends to Valkey
DirectCalls(words) ==
    IF words = <<>> THEN <<>>
    ELSE IF Len(words) = 1 THEN <<"zrevrange">>
    ELSE IF Sinter(words) = {} THEN <<"sinter">> ELSE <<"sinter", "zrank">>

\* The HTTP fallback, cpe_matcher.py:211-235: the whole strings are the words
HttpLookup(vendor, product, version, http_raises, http_results) ==
    IF (vendor = <<>> /\ product = <<>> /\ version = "") \/ http_raises
    THEN <<>>
    ELSE LET top == Take(http_results, 5)
         IN  [i \in 1..Len(top) |->
                [cpe |-> top[i].cpe,
                 score |-> IF top[i].rank # 0 THEN 1000 - top[i].rank ELSE 900,
                 method |-> "cpe_guesser_http"]]

\* SemanticCPEMatcher.search, cpe_matcher.py:70-120
search(query, env) ==
    IF ~env.model THEN [matches |-> <<>>, calls |-> <<>>]
    ELSE IF env.encode_raises THEN [matches |-> <<>>, calls |-> <<"encode">>]
    ELSE IF env.db_raises THEN [matches |-> <<>>, calls |-> <<"encode", "vector_query">>]
    ELSE [matches |-> [i \in 1..Len(Take(env.vector_rows, 10)) |->
                         [cpe |-> env.vector_rows[i].cpe_string,
                          score |-> env.vector_rows[i].similarity,
                          method |-> "semantic"]],
          calls |-> <<"encode", "vector_query">>]

\* What L1 (the CPE guesser, direct or over HTTP) produced for the call
L1Candidates(vendor, product, version, env) ==
    IF ~env.cpe_guesser_enabled THEN <<>>
    ELSE IF ~env.direct_raises
    THEN DirectLookup(SearchWords(vendor, product), env.order)
    ELSE HttpLookup(vendor, product, version, env.http_raises, env.http_results)

L1Calls(vendor, product, version, env) ==
    IF ~env.cpe_guesser_enabled THEN <<>>
    ELSE IF ~env.direct_raises THEN DirectCalls(SearchWords(vendor, product))
    ELSE IF vendor = <<>> /\ product = <<>> /\ version = "" THEN <<>>
    ELSE <<"http_guess">>

\* variant: L2 is consulted whatever L1 found, and the two lists are merged
match_software_merging(vendor, product, version, env) ==
    LET l1 == L1Candidates(vendor, product, version, env)
        l2 == IF env.pgvector_enabled
              THEN search(<<vendor, product, version>>, env)
              ELSE [matches |-> <<>>, calls |-> <<>>]
    IN  [matches |-> l1 \o l2.matches,
         calls |-> L1Calls(vendor, product, version, env) \o l2.calls]

match_software(vendor, product, version, env) ==
    LET l1 == L1Candidates(vendor, product, version, env)
        l1_calls == L1Calls(vendor, product, version, env)
    IN  IF l1 # <<>> THEN [matches |-> l1, calls |-> l1_calls]
        ELSE IF env.pgvector_enabled
        THEN LET l2 == search(<<vendor, product, version>>, env)
             IN  [matches |-> l2.matches, calls |-> l1_calls \o l2.calls]
        ELSE [matches |-> <<>>, calls |-> l1_calls]

(***************************************************************************)
(* MatchSpec: match_software applied once to every input of a bounded set. *)
(***************************************************************************)
\* What one match_software call sees: the settings it reads and what its
\* collaborators do
MatchEnvs ==
    [cpe_guesser_enabled : BOOLEAN,
     pgvector_enabled : BOOLEAN,
     direct_raises : BOOLEAN,
     order : {<<CPE_NGINX, CPE_NGINX_PLUS, CPE_HTTPD, CPE_TOMCAT>>,
              <<CPE_TOMCAT, CPE_HTTPD, CPE_NGINX_PLUS, CPE_NGINX>>},
     http_raises : BOOLEAN,
     http_results : {<<>>, <<[rank |-> 0, cpe |-> CPE_NGINX], [rank |-> 12, cpe |-> CPE_HTTPD]>>},
     model : BOOLEAN,
     encode_raises : {FALSE},
     db_raises : BOOLEAN,
     vector_rows : {<<>>, <<[cpe_string |-> CPE_TOMCAT, similarity |-> 730]>>}]

MatchVendors == {<<>>, <<"nginx">>, <<"Apache">>, <<"of">>}
MatchProducts == {<<"nginx">>, <<"http", "server">>, <<"nginx", "server">>,
                  <<"totally-unknown-pkg">>}
MatchVersions == {"", "1.18.0"}

MatchSpecInit ==
    /\ matchIn \in [vendor : MatchVendors, product : MatchProducts,
                    version : MatchVersions, env : MatchEnvs]
    /\ matchOut = [done |-> FALSE, matches |-> <<>>, calls |-> <<>>]
    /\ CallsIdle
    /\ cpe_guesser_enabled = matchIn.env.cpe_guesser_enabled
    /\ pgvector_enabled = matchIn.env.pgvector_enabled
    /\ max_concurrent_requests = MaxConcurrent
    /\ enabled = TRUE
    /\ redis_client = FALSE
    /\ l1_cache = <<>>
    /\ redis_data = <<>>
    /\ cacheOp = NoOp
    /\ PipeIdle

Match ==
    /\ ~matchOut.done
    /\ LET r == match_software(matchIn.vendor, matchIn.product, matchIn.version, matchIn.env)
       IN  matchOut' = [done |-> TRUE, matches |-> r.matches, calls |-> r.calls]
    /\ UNCHANGED <<matchIn, cacheVars, cacheOp, settingVars, callVars, pipeVars>>

MatchSpecNext == Match

MatchSpec == MatchSpecInit /\ [][MatchSpecNext]_vars

(***************************************************************************)
(* The relational store and the external feed, read-only to the pipeline.  *)
(***************************************************************************)
\* cves JOIN cpe_embeddings WHERE cpe_string = $1 (enrichment.py:157-167)
JoinRows(cpe) == IF cpe = CPE_NGINX THEN <<"CVE-2021-23017">> ELSE <<>>

\* the JSONB configurations scan (enrichment.py:177-189)
JsonbRows(cpe) == IF cpe = CPE_NGINX_PLUS THEN <<"CVE-2022-41741">> ELSE <<>>

\* full-text search over descriptions (enrichment.py:213-222)
TextRows(name, version) == IF name = <<"nginx">> THEN <<"CVE-2019-9511">> ELSE <<>>

\* the NVD keyword search (enrichment.py:310-321)
NvdFeed(name, version) ==
    IF name = <<"http", "server">> THEN <<"CVE-2021-41773">>
    ELSE IF name = <<"nginx">> THEN <<"CVE-2021-23017">>
    ELSE <<>>

\* the CISA KEV catalogue (threat_intel.py)
KevCatalog == {"CVE-2021-41773"}

\* variant: a failed query yields one row that carries the error
get_vulns_by_cpe_error_row(cpe, db_raises) ==
    IF db_raises THEN <<Vuln("", "error")>>
    ELSE LET rows == IF JoinRows(cpe) # <<>> THEN JoinRows(cpe) ELSE JsonbRows(cpe)
         IN  [i \in 1..Len(rows) |-> Vuln(rows[i], "row")]

\* EnrichmentService._get_vulns_by_cpe, enrichment.py:149-206
get_vulns_by_cpe(cpe, db_raises) ==
    IF db_raises THEN <<>>
    ELSE LET rows == IF JoinRows(cpe) # <<>> THEN JoinRows(cpe) ELSE JsonbRows(cpe)
         IN  [i \in 1..Len(rows) |-> Vuln(rows[i], "row")]

\* EnrichmentService._get_vulns_by_text, enrichment.py:208-234
get_vulns_by_text(name, version, db_raises) ==
    IF db_raises THEN <<>>
    ELSE LET rows == Take(TextRows(name, version), 5)
         IN  [i \in 1..Len(rows) |-> Vuln(rows[i], "row")]

\* EnrichmentService._get_vulns_from_nvd, enrichment.py:306-347
get_vulns_from_nvd(name, version, nvd_raises) ==
    IF nvd_raises THEN <<>>
    ELSE LET found == Take(NvdFeed(name, version), 10)
         IN  [i \in 1..Len(found) |-> Vuln(found[i], "nvd")]

\* EnrichmentService._enrich_with_threat_intel, enrichment.py:236-294
enrich_with_threat_intel(vulnerabilities) ==
    [i \in 1..Len(vulnerabilities) |->
        IF vulnerabilities[i].id = "" THEN vulnerabilities[i]
        ELSE [vulnerabilities[i] EXCEPT !.intel = TRUE,
                                        !.kev = vulnerabilities[i].id \in KevCatalog]]

\* EnrichmentService._find_cpe, enrichment.py:137-147; "" stands for None
find_cpe(name, version, vendor, env) ==
    LET matches == match_software(vendor, name, version, env).matches
    IN  IF matches # <<>> THEN matches[1].cpe ELSE ""

\* variant: the label does not look at the list
SourceAlwaysDb(vulnerabilities) == "db"

\* what the collaborators of one _find_cpe call do
PipeMatchEnvs ==
    [cpe_guesser_enabled : {TRUE},
     pgvector_enabled : BOOLEAN,
     direct_raises : BOOLEAN,
     order : {<<CPE_NGINX, CPE_NGINX_PLUS, CPE_HTTPD, CPE_TOMCAT>>},
     http_raises : {FALSE},
     http_results : {<<>>},
     model : BOOLEAN,
     encode_raises : {FALSE},
     db_raises : {FALSE},
     vector_rows : {<<[cpe_string |-> CPE_TOMCAT, similarity |-> 730]>>}]

\* _find_cpe for every item and environment of the pipeline, as a table
\* (@@ makes the function a table that is computed once)
ResolvedCpe ==
    [item \in WellFormedItems, env \in PipeMatchEnvs |->
        find_cpe(item.name, item.version, item.vendor, env)] @@ <<>>

\* item["source"], enrichment.py:134
SourceOf(vulnerabilities) ==
    IF vulnerabilities # <<>> THEN "db"
    ELSE IF vulnerabilities # <<>> THEN "nvd" ELSE "none"

\* `if cached:`, enrichment.py:96
\* variant: the cached value is never taken
CacheHitNever(cached) == FALSE

CacheHit(cached) == Truthy(cached)

(***************************************************************************)
(* EnrichmentService (services/enrichment.py).  A task is one              *)
(* _enrich_single_item coroutine; its pc is the await it is suspended at:  *)
(*   created   made by enrich_software, not yet run                        *)
(*   waiting   in the semaphore's queue                                    *)
(*   woken     handed the semaphore, not yet resumed                       *)
(*   get_l2    awaiting redis_client.get                                   *)
(*   lookup    awaiting identifier resolution and the store queries        *)
(*   nvd       awaiting the external feed                                  *)
(*   set_l2    awaiting redis_client.setex                                 *)
(*   returned  returned its item;  raised  ended with an exception         *)
(***************************************************************************)
Batches == 1..NBatches

NewTask == [pc |-> "created", cpe |-> "unset", vulns |-> <<>>, source |-> "",
            stage |-> "", calls |-> <<>>, expect |-> NoFresh, hit |-> FALSE,
            met |-> FALSE]

Key(b, i) == cache_key(software_list[b][i].name, software_list[b][i].version,
                       software_list[b][i].vendor)

Inside(t) == t.pc \in {"get_l2", "lookup", "nvd", "set_l2"}

\* history: another pipeline for the same key is past its cache miss and has
\* not returned yet (recorded as `met` by a pipeline when it misses)
Computing(key) ==
    \E b \in Batches : \E i \in 1..Len(task[b]) :
        /\ task[b][i].pc \in {"lookup", "nvd", "set_l2"}
        /\ cache_key(software_list[b][i].name, software_list[b][i].version,
                     software_list[b][i].vendor) = key
Holding(t) == Inside(t) \/ t.pc = "woken"
Finished(t) == t.pc \in {"returned", "raised"}

\* `async with self.sem` on exit (enrichment.py:86): the task of (b, i)
\* ends as rec; the semaphore goes to the first waiter, if any.
TaskAfterRelease(b, i, rec) ==
    LET ended == [task EXCEPT ![b][i] = rec] IN
    IF sem_waiters = <<>> THEN ended
    ELSE [ended EXCEPT ![sem_waiters[1][1]][sem_waiters[1][2]].pc = "woken"]

Release(b, i, rec, value) ==
    /\ task' = TaskAfterRelease(b, i, rec)
    /\ sem_value' = IF sem_waiters = <<>> THEN value + 1 ELSE value
    /\ sem_waiters' = IF sem_waiters = <<>> THEN <<>> ELSE Tail(sem_waiters)

RECURSIVE TasksUpTo(_)
TasksUpTo(b) == IF b = 0 THEN 0 ELSE Len(task[b]) + TasksUpTo(b - 1)

\* the number of items submitted so far
Submitted == TasksUpTo(NBatches)

\* enrich_software up to the gather, enrichment.py:71-74
Submit(b, list) ==
    /\ phase[b] = "idle"
    /\ \A c \in 1..(b - 1) : phase[c] # "idle"
    /\ Submitted + Len(list) <= MaxTasks
    /\ phase' = [phase EXCEPT ![b] = "gather"]
    /\ software_list' = [software_list EXCEPT ![b] = list]
    /\ task' = [task EXCEPT ![b] = [i \in 1..Len(list) |-> NewTask]]
    /\ UNCHANGED <<sem_value, sem_waiters, results, fresh, cacheVars,
                   cacheOp, matchVars, settingVars, callVars>>

\* _enrich_single_item from the semaphore to its first await,
\* enrichment.py:86-99, holding the semaphore with `value` left in it
Body(b, i, value) ==
    LET item == software_list[b][i]
        me == task[b][i]
    IN
    IF ~item.dict
    THEN \* item.get raises; the semaphore is released on the way out
         /\ Release(b, i, [me EXCEPT !.pc = "raised"], value)
         /\ UNCHANGED <<l1_cache, fresh>>
    ELSE LET got == CacheManager_get_l1(Key(b, i))
             seen == [me EXCEPT !.calls = <<"cache_get">>, !.expect = fresh[Key(b, i)]]
         IN
         /\ l1_cache' = got.l1
         /\ UNCHANGED fresh
         /\ IF ~got.answered
            THEN /\ task' = [task EXCEPT ![b][i] = [seen EXCEPT !.pc = "get_l2"]]
                 /\ sem_value' = value
                 /\ UNCHANGED sem_waiters
            ELSE IF CacheHit(got.ret)
            THEN Release(b, i, [seen EXCEPT !.pc = "returned", !.vulns = got.ret.v,
                                            !.source = "cache", !.stage = "cache",
                                            !.hit = Truthy(got.ret)], value)
            ELSE /\ task' = [task EXCEPT ![b][i] = [seen EXCEPT !.pc = "lookup",
                                                              !.hit = Truthy(got.ret),
                                                              !.met = Computing(Key(b, i))]]
                 /\ sem_value' = value
                 /\ UNCHANGED sem_waiters

\* variant: the semaphore never makes a task wait
SemNeverLocked == FALSE

\* asyncio.Semaphore.locked(): no slot is left, or the queue still holds an
\* earlier task (one that was handed a slot stays in it until it resumes)
SemLocked ==
    \/ sem_value = 0
    \/ sem_waiters # <<>>
    \/ \E b \in Batches : \E i \in 1..Len(task[b]) : task[b][i].pc = "woken"

\* the event loop runs a new task: `async with self.sem`, enrichment.py:86
Start(b, i) ==
    /\ phase[b] = "gather"
    /\ i \in 1..Len(task[b])
    /\ task[b][i].pc = "created"
    /\ \A j \in 1..(i - 1) : task[b][j].pc # "created"
    /\ IF ~SemLocked
       THEN Body(b, i, sem_value - 1)
       ELSE /\ task' = [task EXCEPT ![b][i].pc = "waiting"]
            /\ sem_waiters' = Append(sem_waiters, <<b, i>>)
            /\ UNCHANGED <<sem_value, l1_cache, fresh>>
    /\ UNCHANGED <<software_list, phase, results, enabled, redis_client, redis_data,
                   cacheOp, matchVars, settingVars, callVars>>

\* a task that was handed the semaphore resumes
Resume(b, i) ==
    /\ i \in 1..Len(task[b])
    /\ task[b][i].pc = "woken"
    /\ Body(b, i, sem_value)
    /\ UNCHANGED <<software_list, phase, results, enabled, redis_client, redis_data,
                   cacheOp, matchVars, settingVars, callVars>>

\* the Redis reply of CacheManager.get arrives, enrichment.py:95-99
GetL2(b, i, fail) ==
    /\ i \in 1..Len(task[b])
    /\ task[b][i].pc = "get_l2"
    /\ LET got == CacheManager_get_l2(Key(b, i), fail)
           me == [task[b][i] EXCEPT !.hit = Truthy(got.ret)]
       IN  /\ l1_cache' = got.l1
           /\ UNCHANGED fresh
           /\ IF CacheHit(got.ret)
              THEN Release(b, i, [me EXCEPT !.pc = "returned", !.vulns = got.ret.v,
                                            !.source = "cache", !.stage = "cache"],
                           sem_value)
              ELSE /\ task' = [task EXCEPT ![b][i] = [me EXCEPT !.pc = "lookup",
                                                               !.met = Computing(Key(b, i))]]
                   /\ UNCHANGED <<sem_value, sem_waiters>>
    /\ UNCHANGED <<software_list, phase, results, enabled, redis_client, redis_data,
                   cacheOp, matchVars, settingVars, callVars>>

\* enrichment.py:125-135 once the vulnerabilities are known: the threat
\* intel pass, the in-process half of cache_manager.set, and, when there is
\* no Redis call to await, the return
Conclude(b, i, me, found, stage) ==
    LET vulnerabilities == IF found # <<>> THEN enrich_with_threat_intel(found) ELSE <<>>
        l1 == CacheManager_set_l1(Key(b, i), PyList(vulnerabilities))
        done == [me EXCEPT !.vulns = vulnerabilities, !.stage = stage,
                           !.calls = Append(@, "cache_set")]
    IN  /\ l1_cache' = l1
        /\ fresh' = [fresh EXCEPT ![Key(b, i)] =
                        [live |-> TRUE, vulns |-> vulnerabilities, age |-> 0]]
        /\ IF enabled /\ redis_client
           THEN /\ task' = [task EXCEPT ![b][i] = [done EXCEPT !.pc = "set_l2"]]
                /\ UNCHANGED <<sem_value, sem_waiters>>
           ELSE Release(b, i, [done EXCEPT !.pc = "returned",
                                           !.source = SourceOf(vulnerabilities)],
                        sem_value)

\* variant: the text search runs whatever the identifier lookup returned
ByTextAlways(vulnerabilities) == TRUE

\* `if not vulnerabilities:` before the text search, enrichment.py:111
ByTextWanted(vulnerabilities) == vulnerabilities = <<>>

\* identifier resolution and the two store paths, enrichment.py:101-112
Lookup(b, i, env, cpe_raises, text_raises) ==
    /\ i \in 1..Len(task[b])
    /\ task[b][i].pc = "lookup"
    /\ env.cpe_guesser_enabled = cpe_guesser_enabled
    /\ env.pgvector_enabled = pgvector_enabled
    /\ LET item == software_list[b][i]
           cpe == ResolvedCpe[item, env]
           by_cpe == IF cpe # "" THEN get_vulns_by_cpe(cpe, cpe_raises) ELSE <<>>
           by_text == IF ByTextWanted(by_cpe)
                      THEN get_vulns_by_text(item.name, item.version, text_raises)
                      ELSE <<>>
           me == [task[b][i] EXCEPT
                    !.cpe = cpe,
                    !.calls = @ \o <<"find_cpe">>
                                \o (IF cpe # "" THEN <<"by_cpe">> ELSE <<>>)
                                \o (IF ByTextWanted(by_cpe) THEN <<"by_text">> ELSE <<>>)]
       IN  IF by_cpe # <<>> THEN Conclude(b, i, me, by_cpe, "by_cpe")
           ELSE IF by_text # <<>> THEN Conclude(b, i, me, by_text, "by_text")
           ELSE /\ task' = [task EXCEPT ![b][i] = [me EXCEPT !.pc = "nvd",
                                                            !.calls = Append(@, "nvd")]]
                /\ UNCHANGED <<sem_value, sem_waiters, l1_cache, fresh>>
    /\ UNCHANGED <<software_list, phase, results, enabled, redis_client, redis_data,
                   cacheOp, matchVars, settingVars, callVars>>

\* the external feed answers, enrichment.py:114-123
Nvd(b, i, nvd_raises) ==
    /\ i \in 1..Len(task[b])
    /\ task[b][i].pc = "nvd"
    /\ LET item == software_list[b][i]
           nvd_vulns == get_vulns_from_nvd(item.name, item.version, nvd_raises)
       IN  Conclude(b, i, task[b][i], nvd_vulns,
                    IF nvd_vulns # <<>> THEN "nvd" ELSE "none")
    /\ UNCHANGED <<software_list, phase, results, enabled, redis_client, redis_data,
                   cacheOp, matchVars, settingVars, callVars>>

\* redis_client.setex answers (or raises), then the return, enrichment.py:132-135
SetL2(b, i, fail) ==
    /\ i \in 1..Len(task[b])
    /\ task[b][i].pc = "set_l2"
    /\ redis_data' = CacheManager_set_l2(Key(b, i), PyList(task[b][i].vulns), fail)
    /\ Release(b, i, [task[b][i] EXCEPT !.pc = "returned",
                                        !.source = SourceOf(task[b][i].vulns)],
               sem_value)
    /\ UNCHANGED <<software_list, phase, results, enabled, redis_client, l1_cache, fresh,
                   cacheOp, matchVars, settingVars, callVars>>

\* the gather is complete: enrich_software builds its list, enrichment.py:74-82
Gathered(b) ==
    LET n == Len(task[b])
        enriched_items == [i \in 1..n |->
            [is_exception |-> task[b][i].pc = "raised", input_index |-> i,
             item |-> software_list[b][i], cpe |-> task[b][i].cpe,
             vulnerabilities |-> task[b][i].vulns, source |-> task[b][i].source]]
    IN  SelectSeq(enriched_items, LAMBDA res : ~res.is_exception)

Collect(b) ==
    /\ phase[b] = "gather"
    /\ \A i \in 1..Len(task[b]) : Finished(task[b][i])
    /\ results' = [results EXCEPT ![b] = Gathered(b)]
    /\ phase' = [phase EXCEPT ![b] = "returned"]
    /\ UNCHANGED <<sem_value, sem_waiters, software_list, task, fresh, cacheVars,
                   cacheOp, matchVars, settingVars, callVars>>

\* time passes for the in-process tier and for the history
PipeTick ==
    /\ Tick
    /\ fresh' = [k \in CacheKeys |->
                    IF fresh[k].live /\ fresh[k].age + 1 < L1_TTL
                    THEN [fresh[k] EXCEPT !.age = @ + 1]
                    ELSE NoFresh]
    /\ UNCHANGED <<sem_value, sem_waiters, software_list, phase, task, results,
                   cacheOp, matchVars, settingVars, callVars>>

\* the lists a request may carry
PipeItems == {ItemNginx, ItemUnknown, ItemMalformed}
\* EnrichmentService.initialize (enrichment.py:34-53) runs once, before any
\* request is served (main.py:26): cache_manager.initialize connects Redis
Startup ==
    /\ \A b \in Batches : phase[b] = "idle"
    /\ ~redis_client
    /\ CacheInitialize(TRUE)
    /\ UNCHANGED <<pipeVars, cacheOp, matchVars, settingVars, callVars>>

\* Redis drops a key of the pipeline
PipeRedisExpire(key) ==
    /\ RedisExpire(key)
    /\ UNCHANGED <<pipeVars, cacheOp, matchVars, settingVars, callVars>>

SoftwareLists == UNION {[1..n -> PipeItems] : n \in 1..MaxBatch}

Init ==
    /\ CacheInit
    /\ cacheOp = NoOp
    /\ MatchIdle
    /\ CallsIdle
    /\ cpe_guesser_enabled = TRUE
    /\ pgvector_enabled \in BOOLEAN
    /\ max_concurrent_requests \in 1..MaxConcurrent
    /\ PipeIdle

Next ==
    \/ Startup
    \/ \E b \in Batches, list \in SoftwareLists : Submit(b, list)
    \/ \E b \in Batches, i \in 1..MaxBatch : Start(b, i)
    \/ \E b \in Batches, i \in 1..MaxBatch : Resume(b, i)
    \/ \E b \in Batches, i \in 1..MaxBatch, fail \in BOOLEAN : GetL2(b, i, fail)
    \/ \E b \in Batches, i \in 1..MaxBatch, env \in PipeMatchEnvs,
          cpe_raises \in BOOLEAN, text_raises \in BOOLEAN :
             Lookup(b, i, env, cpe_raises, text_raises)
    \/ \E b \in Batches, i \in 1..MaxBatch, nvd_raises \in BOOLEAN : Nvd(b, i, nvd_raises)
    \/ \E b \in Batches, i \in 1..MaxBatch, fail \in BOOLEAN : SetL2(b, i, fail)
    \/ \E b \in Batches : Collect(b)
    \/ PipeTick
    \/ \E key \in CacheKeys : PipeRedisExpire(key)

Spec == Init /\ [][Next]_vars

(***************************************************************************)
(* FairSpec: Spec with the scheduling the event loop gives.  A task that   *)
(* can run is run, and an awaited reply (Redis, the store, the matcher,    *)
(* the feed) arrives: each task's next step is weakly fair.                *)
(***************************************************************************)
TaskStep(b, i) ==
    \/ Start(b, i)
    \/ Resume(b, i)
    \/ \E fail \in BOOLEAN : GetL2(b, i, fail)
    \/ \E env \in PipeMatchEnvs, cpe_raises \in BOOLEAN, text_raises \in BOOLEAN :
          Lookup(b, i, env, cpe_raises, text_raises)
    \/ \E nvd_raises \in BOOLEAN : Nvd(b, i, nvd_raises)
    \/ \E fail \in BOOLEAN : SetL2(b, i, fail)

Fairness == WF_vars(\E b \in Batches, i \in 1..MaxBatch : TaskStep(b, i))

FairSpec == Init /\ [][Next]_vars /\ Fairness

(***************************************************************************)
(* Properties                                                              *)
(***************************************************************************)
\* the tasks of the batches
Tasks == {bi \in Batches \X (1..MaxBatch) : bi[2] <= Len(task[bi[1]])}
TaskOf(bi) == task[bi[1]][bi[2]]
ItemOf(bi) == software_list[bi[1]][bi[2]]
Returned == {bi \in Tasks : TaskOf(bi).pc = "returned"}
MissReturned == {bi \in Returned : TaskOf(bi).stage # "cache"}
OnlyCacheGet(calls) == \A n \in 1..Len(calls) : calls[n] = "cache_get"

\* C1: enrich_software returns exactly one result per submitted item, also
\* when the pipelines of some items raise: the returned list is as long as
\* the input list.
C1_OneResultPerItem ==
    \A b \in Batches :
        phase[b] = "returned" => Len(results[b]) = Len(software_list[b])

\* C2: enrich_software preserves order: the result at index i of the
\* returned list is the result of the input item at index i, also when the
\* pipeline of another item fails.
C2_IndexAligned ==
    \A b \in Batches :
        phase[b] = "returned" =>
            \A i \in 1..Len(results[b]) :
                /\ results[b][i].input_index = i
                /\ results[b][i].item = software_list[b][i]

\* C3: an item whose pipeline raised is represented in the returned list by
\* a result with source none and an empty vulnerability list.
C3_FailedItemRepresented ==
    \A b \in Batches :
        phase[b] = "returned" =>
            \A i \in 1..Len(task[b]) :
                task[b][i].pc = "raised" =>
                    \E r \in 1..Len(results[b]) :
                        /\ results[b][r].input_index = i
                        /\ results[b][r].source = "none"
                        /\ results[b][r].vulnerabilities = <<>>

\* the first enrichment of C4: the identifier resolved and the store
\* returned a non-empty list for it
StoreFirst(bi) ==
    TaskOf(bi).stage = "by_cpe" => /\ TaskOf(bi).cpe # ""
                                   /\ TaskOf(bi).source = "db"
                                   /\ TaskOf(bi).vulns # <<>>

\* the second enrichment of C4: when it read the cache, a list the store
\* had returned for its key had been written less than the ttl ago
AfterStoreResult(bi) ==
    /\ TaskOf(bi).expect.live
    /\ TaskOf(bi).expect.vulns # <<>>
    /\ TaskOf(bi).expect.vulns[1].origin = "row"

ServedFromCache(bi) ==
    /\ TaskOf(bi).source = "cache"
    /\ TaskOf(bi).vulns = TaskOf(bi).expect.vulns

C5_NegativeResultHits ==
    \A bi \in Returned :
        enabled /\ TaskOf(bi).expect.live /\ TaskOf(bi).expect.vulns = <<>> =>
            /\ TaskOf(bi).source = "cache"
            /\ OnlyCacheGet(TaskOf(bi).calls)

\* C6: on a cache miss, source names the stage that produced the list:
\* store (db) for the two repository paths, external (nvd) for the feed,
\* none when every stage came back empty.
C6_SourceNamesStage ==
    \A bi \in MissReturned :
        TaskOf(bi).source =
            CASE TaskOf(bi).stage \in {"by_cpe", "by_text"} -> "db"
              [] TaskOf(bi).stage = "nvd" -> "nvd"
              [] OTHER -> "none"

\* the item of C7: its words match nothing in the keyword index, and no
\* store row or feed record matches it
NoMatchItem(item) ==
    /\ item.dict
    /\ \A n \in 1..Len(SearchWords(item.vendor, item.name)) :
          /\ WordSet(SearchWords(item.vendor, item.name)[n]) = {}
          /\ SortedSet(SearchWords(item.vendor, item.name)[n]) = <<>>
    /\ TextRows(item.name, item.version) = <<>>
    /\ NvdFeed(item.name, item.version) = <<>>

\* C7: with semantic search disabled, the pipeline of an item that matches
\* nothing never raises and returns with no identifier, an empty
\* vulnerability list and source none.
C7_NoMatch ==
    \A bi \in Tasks :
        ~pgvector_enabled /\ NoMatchItem(ItemOf(bi)) =>
            /\ TaskOf(bi).pc # "raised"
            /\ TaskOf(bi).pc = "returned" =>
                  /\ TaskOf(bi).cpe = ""
                  /\ TaskOf(bi).vulns = <<>>
                  /\ TaskOf(bi).source = "none"

C7_Witness ==
    \E bi \in Returned :
        /\ ~pgvector_enabled
        /\ NoMatchItem(ItemOf(bi))
        /\ TaskOf(bi).stage = "none"
        /\ TaskOf(bi).source = "none"

\* C8 as stated: a get that directly follows set(k, v) returns v, also when
\* Redis is down or the Redis call of the set failed, and neither call
\* raises.
C8_SetThenGet ==
    /\ cacheOp.op = "set" => ~cacheOp.raised
    /\ cacheOp.op = "get" /\ cacheOp.follows_set =>
          cacheOp.ret = cacheOp.arg /\ ~cacheOp.raised

\* C8 amended: the same, for a cache that is enabled (settings.cache_enabled).
C8_SetThenGetWhenEnabled ==
    /\ cacheOp.op = "set" => ~cacheOp.raised
    /\ enabled /\ cacheOp.op = "get" /\ cacheOp.follows_set =>
          cacheOp.ret = cacheOp.arg /\ ~cacheOp.raised

C8_Witness ==
    /\ enabled
    /\ cacheOp.op = "get"
    /\ cacheOp.follows_set
    /\ cacheOp.redis_failed
    /\ cacheOp.ret = cacheOp.arg
    /\ cacheOp.ret # None

\* the tasks that hold a slot of the semaphore
Holders == {bi \in Tasks : Holding(TaskOf(bi))}
Running == {bi \in Tasks : Inside(TaskOf(bi))}

ConcurrencyBounded ==
    /\ Cardinality(Running) <= max_concurrent_requests
    /\ sem_value + Cardinality(Holders) = max_concurrent_requests

\* the task of (b, i) is queued for the semaphore, or was handed it and
\* has not run since
Queued(b, i) == i <= Len(task[b]) /\ task[b][i].pc \in {"waiting", "woken"}

WaitersRun == \A b \in Batches, i \in 1..MaxBatch : []<>~Queued(b, i)

\* C9: at no time are more items inside the single-item pipeline than
\* max_concurrent_requests, over all batches that share the service; an
\* item that waits for the semaphore gets its slot and runs to its end.
C9_BoundedConcurrency == []ConcurrencyBounded /\ WaitersRun

C9_Witness ==
    /\ sem_waiters # <<>>
    /\ Cardinality(Running) = max_concurrent_requests
    /\ \E bi \in Running : TaskOf(bi).pc = "lookup"

\* C10: match_software runs the semantic search only when L1 found no
\* candidate; when L1 found one, the list returned is L1's list and neither
\* the embedding nor the vector query was issued.
C10_L1Authoritative ==
    matchOut.done =>
        LET l1 == L1Candidates(matchIn.vendor, matchIn.product, matchIn.version,
                               matchIn.env)
            semantic == \E n \in 1..Len(matchOut.calls) :
                            matchOut.calls[n] \in {"encode", "vector_query"}
        IN  /\ semantic => l1 = <<>>
            /\ l1 # <<>> => matchOut.matches = l1 /\ ~semantic

C10_Witness ==
    /\ matchOut.done
    /\ pgvector_enabled
    /\ matchIn.env.model
    /\ matchIn.env.vector_rows # <<>>
    /\ L1Candidates(matchIn.vendor, matchIn.product, matchIn.version, matchIn.env) # <<>>
    /\ matchOut.matches =
          L1Candidates(matchIn.vendor, matchIn.product, matchIn.version, matchIn.env)

\* the words of the call, and the identifiers the keyword lookup gave it
MatchWords == SearchWords(matchIn.vendor, matchIn.product)
DirectMatches == SelectSeq(matchOut.matches, LAMBDA m : m.method = "cpe_guesser_direct")

\* C11: for a query of two or more distinct words, every identifier the
\* keyword lookup of match_software returns is in the keyword set of every
\* word (the intersection); when the intersection is empty the keyword
\* lookup returns no candidate.
C11_ExactIntersection ==
    matchOut.done /\ Len(MatchWords) >= 2 =>
        /\ \A n \in 1..Len(DirectMatches) : \A w \in 1..Len(MatchWords) :
              DirectMatches[n].cpe \in WordSet(MatchWords[w])
        /\ (\A c \in CPEs : \E w \in 1..Len(MatchWords) : c \notin WordSet(MatchWords[w]))
              => DirectMatches = <<>>

C11_Witness ==
    /\ matchOut.done
    /\ MatchWords = <<"nginx", "server">>
    /\ Len(DirectMatches) = 1
    /\ DirectMatches[1].cpe = CPE_NGINX
    /\ matchOut.matches = DirectMatches

(***************************************************************************)
(* version_matcher.py.  A str is the sequence of its characters, and the   *)
(* regular expressions are matched character by character.  The strings    *)
(* drawn hold no newline and no non-ASCII digit.                           *)
(***************************************************************************)
\* the characters in use, in code point order (str comparison, line 128)
CodePointOrder ==
    <<" ", "!", "*", "+", ",", "-", ".", "0", "1", "2", "3", "4", "5", "6", "7", "8", "9",
      ":", "<", "=", ">", "a", "b", "c", "d", "e", "g", "i", "l", "n", "o", "p", "r", "s",
      "t", "u", "v", "x">>
Ord(ch) == CHOOSE n \in 1..Len(CodePointOrder) : CodePointOrder[n] = ch
DigitChars == <<"0", "1", "2", "3", "4", "5", "6", "7", "8", "9">>
IsDigit(ch) == \E n \in 1..Len(DigitChars) : DigitChars[n] = ch
IsLetter(ch) == Ord(ch) >= Ord("a")
\* [0-9A-Za-z-]
IsIdentChar(ch) == IsDigit(ch) \/ IsLetter(ch) \/ ch = "-"

RECURSIVE StrLess(_, _)
\* v1 < v2 on str
StrLess(s, t) ==
    IF t = <<>> THEN FALSE
    ELSE IF s = <<>> THEN TRUE
    ELSE IF s[1] = t[1] THEN StrLess(Tail(s), Tail(t))
    ELSE Ord(s[1]) < Ord(t[1])

\* -1 if v1 < v2 else 1 if v1 > v2 else 0
StrCompare(s, t) == IF StrLess(s, t) THEN -1 ELSE IF StrLess(t, s) THEN 1 ELSE 0

\* str.find(ch) + 1
IndexOf(s, ch) ==
    IF \E n \in 1..Len(s) : s[n] = ch
    THEN CHOOSE n \in 1..Len(s) : s[n] = ch /\ \A m \in 1..(n - 1) : s[m] # ch
    ELSE 0
\* str.count(ch)
CountOf(s, ch) == Cardinality({n \in 1..Len(s) : s[n] = ch})
From(s, n) == SubSeq(s, n, Len(s))
StartsWith(s, p) == Len(s) >= Len(p) /\ SubSeq(s, 1, Len(p)) = p

RECURSIVE Split(_, _)
\* str.split(sep) for a one-character separator
Split(s, sep) ==
    LET n == IndexOf(s, sep)
    IN  IF n = 0 THEN <<s>> ELSE <<SubSeq(s, 1, n - 1)>> \o Split(From(s, n + 1), sep)

RECURSIVE Strip(_)
\* str.strip()
Strip(s) ==
    IF s = <<>> THEN s
    ELSE IF s[1] = " " THEN Strip(Tail(s))
    ELSE IF s[Len(s)] = " " THEN Strip(SubSeq(s, 1, Len(s) - 1))
    ELSE s

RECURSIVE ToInt(_)
\* int(digits)
ToInt(s) ==
    IF s = <<>> THEN 0
    ELSE ToInt(SubSeq(s, 1, Len(s) - 1)) * 10
            + (CHOOSE d \in 0..9 : DigitChars[d + 1] = s[Len(s)])

\* \d+
AllDigits(s) == s # <<>> /\ \A n \in 1..Len(s) : IsDigit(s[n])
\* [0-9A-Za-z-]+
IsIdent(s) == s # <<>> /\ \A n \in 1..Len(s) : IsIdentChar(s[n])
\* [0-9A-Za-z-]+(?:\.[0-9A-Za-z-]+)*
IsDottedIdents(s) == LET p == Split(s, ".") IN \A n \in 1..Len(p) : IsIdent(p[n])

\* self.semver_pattern.match(version) and its groups (line 22): the core
\* ends at the first "-" or "+"; a prerelease runs to the first "+"
SemverMatch(v) ==
    LET dash == IndexOf(v, "-")
        plus == IndexOf(v, "+")
        hasPre == dash # 0 /\ (plus = 0 \/ dash < plus)
        coreEnd == IF hasPre THEN dash - 1 ELSE IF plus # 0 THEN plus - 1 ELSE Len(v)
        core == Split(SubSeq(v, 1, coreEnd), ".")
        pre == IF ~hasPre THEN <<>>
               ELSE IF plus = 0 THEN From(v, dash + 1) ELSE SubSeq(v, dash + 1, plus - 1)
        build == IF plus = 0 THEN <<>> ELSE From(v, plus + 1)
    IN  [ok |-> /\ Len(core) = 3
                /\ \A n \in 1..3 : AllDigits(core[n])
                /\ hasPre => IsDottedIdents(pre)
                /\ plus # 0 => IsDottedIdents(build),
         core |-> core, prerelease |-> pre, build |-> build]

\* self.calver_pattern.match(version) and its groups (line 23)
CalverMatch(v) ==
    LET dash == IndexOf(v, "-")
        head == Split(IF dash = 0 THEN v ELSE SubSeq(v, 1, dash - 1), ".")
        pre == IF dash = 0 THEN <<>> ELSE From(v, dash + 1)
    IN  [ok |-> /\ Len(head) \in {3, 4}
                /\ \A n \in 1..Len(head) : AllDigits(head[n])
                /\ Len(head[1]) = 4
                /\ Len(head[2]) \in {1, 2}
                /\ Len(head[3]) \in {1, 2}
                /\ dash # 0 => IsIdent(pre),
         head |-> head, prerelease |-> pre]

RECURSIVE SkipDigits(_, _)
\* the position after the digits that start at position n
SkipDigits(s, n) == IF n <= Len(s) /\ IsDigit(s[n]) THEN SkipDigits(s, n + 1) ELSE n

\* the position after an optional group "prefix digits+" tried at position n
SkipGroup(s, n, prefixes) ==
    LET fit == {p \in prefixes : StartsWith(From(s, n), p)
                                   /\ SkipDigits(s, n + Len(p)) > n + Len(p)}
    IN  IF fit = {} THEN n
        ELSE LET p == CHOOSE x \in fit : TRUE IN SkipDigits(s, n + Len(p))

\* self.pep440_pattern.match(version) (line 24)
Pep440Match(v) ==
    LET n1 == SkipDigits(v, 1)
        n2 == SkipGroup(v, n1, {<<".">>})
        n3 == SkipGroup(v, n2, {<<".">>})
        n4 == SkipGroup(v, n3, {<<"a">>, <<"b">>, <<"r", "c">>})
        n5 == SkipGroup(v, n4, {<<".", "p", "o", "s", "t">>, <<".", "d", "e", "v">>})
    IN  n1 > 1 /\ n5 = Len(v) + 1

\* VersionComparison.detect_scheme
detect_scheme(version) ==
    IF SemverMatch(version).ok THEN "semver"
    ELSE IF CalverMatch(version).ok THEN "calver"
    ELSE IF Pep440Match(version) THEN "pep440"
    ELSE IF IndexOf(version, ":") # 0 /\ IndexOf(version, "-") # 0 THEN "debian"
    ELSE IF CountOf(version, "-") >= 2 THEN "rpm"
    ELSE "custom"

\* VersionComparison.parse_semver
parse_semver(version) ==
    LET m == SemverMatch(version)
    IN  IF ~m.ok THEN [nums |-> <<0, 0, 0>>, prerelease |-> <<>>, build |-> <<>>]
        ELSE [nums |-> [n \in 1..3 |-> ToInt(m.core[n])],
              prerelease |-> m.prerelease, build |-> m.build]

\* VersionComparison.parse_calver
parse_calver(version) ==
    LET m == CalverMatch(version)
    IN  IF ~m.ok THEN [nums |-> <<0, 0, 0, 0>>, prerelease |-> <<>>]
        ELSE [nums |-> [n \in 1..4 |-> IF n <= Len(m.head) THEN ToInt(m.head[n]) ELSE 0],
              prerelease |-> m.prerelease]

\* the loop over the numeric fields, then the prerelease (lines 77-91, 99-113)
CompareParsed(p1, p2) ==
    LET differ == {n \in 1..Len(p1.nums) : p1.nums[n] # p2.nums[n]}
    IN  IF differ # {}
        THEN LET n == CHOOSE x \in differ : \A y \in differ : x <= y
             IN  IF p1.nums[n] < p2.nums[n] THEN -1 ELSE 1
        ELSE IF p1.prerelease # <<>> /\ p2.prerelease = <<>> THEN -1
        ELSE IF p1.prerelease = <<>> /\ p2.prerelease # <<>> THEN 1
        ELSE IF p1.prerelease # <<>> /\ p2.prerelease # <<>>
             THEN StrCompare(p1.prerelease, p2.prerelease)
        ELSE 0

\* variant: any version that carries a prerelease is the lesser one
compare_semver_prerelease_first(v1, v2) ==
    IF parse_semver(v1).prerelease # <<>> THEN -1
    ELSE CompareParsed(parse_semver(v1), parse_semver(v2))

\* VersionComparison.compare_semver
compare_semver(v1, v2) == CompareParsed(parse_semver(v1), parse_semver(v2))

\* VersionComparison.compare_calver
compare_calver(v1, v2) == CompareParsed(parse_calver(v1), parse_calver(v2))

\* VersionComparison.compare_versions
compare_versions(v1, v2) ==
    LET scheme1 == detect_scheme(v1)
        scheme2 == detect_scheme(v2)
    IN  IF scheme1 = scheme2 /\ scheme1 = "semver" THEN compare_semver(v1, v2)
        ELSE IF scheme1 = scheme2 /\ scheme1 = "calver" THEN compare_calver(v1, v2)
        ELSE StrCompare(v1, v2)

\* the version strings drawn: semver, calver, pep440, debian, rpm, custom
Versions == {
    <<"1", ".", "2", ".", "3">>,                               \* 1.2.3
    <<"1", ".", "2", ".", "4">>,                               \* 1.2.4
    <<"1", ".", "2", ".", "0">>,                               \* 1.2.0
    <<"1", ".", "1", "0", ".", "0">>,                          \* 1.10.0
    <<"1", ".", "9", ".", "0">>,                               \* 1.9.0
    <<"1", ".", "2", ".", "3", "-", "a">>,                     \* 1.2.3-a
    <<"1", ".", "2", ".", "3", "-", "b">>,                     \* 1.2.3-b
    <<"1", ".", "2", ".", "3", "+", "x">>,                     \* 1.2.3+x
    <<"2", "0", "2", "3", ".", "1", ".", "2", ".", "1">>,      \* 2023.1.2.1
    <<"2", "0", "2", "3", ".", "1", "2", ".", "1", ".", "0">>, \* 2023.12.1.0
    <<"2", "0", "2", "3", ".", "1", ".", "2", ".", "1", "-", "a">>, \* 2023.1.2.1-a
    <<"1", ".", "2">>,                                         \* 1.2
    <<"1", ".", "1", "0">>,                                    \* 1.10
    <<"1", ".", "9">>,                                         \* 1.9
    <<"1", ".", "2", "r", "c", "1">>,                          \* 1.2rc1
    <<"1", ":", "2", "-", "3">>,                               \* 1:2-3
    <<"1", "-", "2", "-", "3">>,                               \* 1-2-3
    <<"v", "1">>                                               \* v1
    }

\* the range strings drawn
Ranges == {
    <<>>,                                                      \* (empty)
    <<"*">>,                                                   \* *
    <<" ", "*", " ">>,                                         \*  * 
    <<"<", "1", ".", "2", ".", "4">>,                          \* <1.2.4
    <<"<", "1", ".", "2", ".", "4", ",", ">", "=", "1", ".", "2", ".", "0">>, \* <1.2.4,>=1.2.0
    <<">", "=", "1", ".", "2", ".", "0", ",", " ", "<", "1", ".", "2", ".", "4">>, \* >=1.2.0, <1.2.4
    <<">", "1", ".", "2", ".", "4", ",", "<", "1", ".", "2", ".", "0">>, \* >1.2.4,<1.2.0
    <<"<", "=", "1", ".", "2", ".", "3">>,                     \* <=1.2.3
    <<"=", "=", "1", ".", "2", ".", "3">>,                     \* ==1.2.3
    <<"=", "1", ".", "2", ".", "4">>,                          \* =1.2.4
    <<"!", "=", "1", ".", "2", ".", "3">>,                     \* !=1.2.3
    <<">", "1", ".", "9", ".", "0", ",", "!", "=", "1", ".", "1", "0", ".", "0">>, \* >1.9.0,!=1.10.0
    <<"u", "p", " ", "t", "o", " ", "1", ".", "2", ".", "3">>, \* up to 1.2.3
    <<"u", "p", " ", "t", "o", " ", "e", "x", "c", "l", "u", "d", "i", "n", "g", " ", "1", ".", "2", ".", "4">>, \* up to excluding 1.2.4
    <<">", "=", "1", ".", "2", ",", "<", "1", ".", "9">>,      \* >=1.2,<1.9
    <<">", "=", " ", "2", "0", "2", "3", ".", "1", ".", "2", ".", "1">> \* >= 2023.1.2.1
    }

RECURSIVE SkipOperator(_, _)
\* the position after the characters of [<>=!]+ that start at position n
SkipOperator(s, n) ==
    IF n <= Len(s) /\ s[n] \in {"<", ">", "=", "!"} THEN SkipOperator(s, n + 1) ELSE n

\* self.range_pattern.match(part) on a stripped part (line 135): the operator
\* is greedy and gives one character back when nothing else is left
RangeMatch(part) ==
    LET n == SkipOperator(part, 1) - 1
        rest == Strip(From(part, n + 1))
        space == IndexOf(rest, " ")
    IN  IF n >= 1 /\ rest # <<>>
        THEN [ok |-> TRUE, operator |-> SubSeq(part, 1, n),
              version |-> IF space = 0 THEN rest ELSE SubSeq(rest, 1, space - 1)]
        ELSE IF n >= 2
        THEN [ok |-> TRUE, operator |-> SubSeq(part, 1, n - 1), version |-> <<part[n]>>]
        ELSE [ok |-> FALSE, operator |-> <<>>, version |-> <<>>]

UpTo == <<"u", "p", " ", "t", "o", " ">>
Excluding == <<"e", "x", "c", "l", "u", "d", "i", "n", "g", " ">>

\* the body of the loop of parse_range for one part (lines 145-161)
ParsePart(raw) ==
    LET part == Strip(raw)
        version == Strip(From(part, Len(UpTo) + 1))
        m == RangeMatch(part)
    IN  IF part = <<>> THEN <<>>
        ELSE IF StartsWith(part, UpTo)
        THEN IF StartsWith(version, Excluding)
             THEN <<[operator |-> <<"<">>, version |-> Strip(From(version, Len(Excluding) + 1))]>>
             ELSE <<[operator |-> <<"<", "=">>, version |-> version]>>
        ELSE IF m.ok THEN <<[operator |-> m.operator, version |-> m.version]>>
        ELSE <<>>

RECURSIVE ParseParts(_)
ParseParts(parts) ==
    IF parts = <<>> THEN <<>> ELSE ParsePart(Head(parts)) \o ParseParts(Tail(parts))

\* VersionRange.parse_range
parse_range(range_str) ==
    IF range_str = <<>> \/ Strip(range_str) = <<"*">> THEN <<>>
    ELSE ParseParts(Split(range_str, ","))

\* VersionRange._check_constraint; compare_versions raises on no str
check_constraint(version, operator, range_version) ==
    LET comparison == compare_versions(version, range_version)
    IN  IF operator = <<"<">> THEN comparison < 0
        ELSE IF operator = <<"<", "=">> THEN comparison <= 0
        ELSE IF operator = <<">">> THEN comparison > 0
        ELSE IF operator = <<">", "=">> THEN comparison >= 0
        ELSE IF operator = <<"=">> \/ operator = <<"=", "=">> THEN comparison = 0
        ELSE IF operator = <<"!", "=">> THEN comparison # 0
        ELSE IF StartsWith(operator, <<"<", "=">>) THEN comparison <= 0
        ELSE IF StartsWith(operator, <<">", "=">>) THEN comparison >= 0
        ELSE IF StartsWith(operator, <<"!", "=">>) THEN comparison # 0
        ELSE FALSE

\* variant: one satisfied constraint is enough
matches_version_any(version, range_str) ==
    LET ranges == parse_range(range_str)
    IN  \/ ranges = <<>>
        \/ \E n \in 1..Len(ranges) :
              check_constraint(version, ranges[n].operator, ranges[n].version)

\* VersionRange.matches_version
matches_version(version, range_str) ==
    IF range_str = <<>> \/ Strip(range_str) = <<"*">> THEN TRUE
    ELSE LET ranges == parse_range(range_str)
         IN  IF ranges = <<>> THEN TRUE
             ELSE \A n \in 1..Len(ranges) :
                     check_constraint(version, ranges[n].operator, ranges[n].version)

(***************************************************************************)
(* CPEVersionMatcher, version_matcher.py:223-312.  A confidence is the     *)
(* fraction num / den; the floats of the code are these fractions.         *)
(***************************************************************************)
Min(a, b) == IF a < b THEN a ELSE b
Max(a, b) == IF a > b THEN a ELSE b

RECURSIVE FindDigitRuns(_)
\* re.findall(r'\d+', s)
FindDigitRuns(s) ==
    IF s = <<>> THEN <<>>
    ELSE IF IsDigit(s[1])
         THEN LET n == SkipDigits(s, 1)
              IN  <<SubSeq(s, 1, n - 1)>> \o FindDigitRuns(From(s, n))
    ELSE FindDigitRuns(Tail(s))

Frac(n, d) == [num |-> n, den |-> d]
FracEq(x, y) == x.num * y.den = y.num * x.den
FracGt(x, y) == x.num * y.den > y.num * x.den

\* the software versions and the CPE strings drawn
SoftwareVersions == {
    <<"1", ".", "2", ".", "3">>,
    <<"1", ".", "2", ".", "4">>,
    <<"3", ".", "0", ".", "0">>
    }
CpeStrings == {
    <<"c", "p", "e", ":", "2", ".", "3", ":", "a", ":", "n", "g", "i", "n", "x", ":", "n", "g", "i", "n", "x", ":", "1", ".", "2", ".", "3">>,  \* cpe:2.3:a:nginx:nginx:1.2.3
    <<"c", "p", "e", ":", "2", ".", "3", ":", "a", ":", "n", "g", "i", "n", "x", ":", "n", "g", "i", "n", "x", ":", "*">>,  \* cpe:2.3:a:nginx:nginx:*
    <<"c", "p", "e", ":", "2", ".", "3", ":", "a", ":", "n", "g", "i", "n", "x", ":", "n", "g", "i", "n", "x", ":", "<", "1", ".", "2", ".", "4">>,  \* cpe:2.3:a:nginx:nginx:<1.2.4
    <<"c", "p", "e", ":", "2", ".", "3", ":", "a", ":", "n", "g", "i", "n", "x", ":", ">", "1", ".", "2", ".", "4", ":", "1", ".", "2", ".", "3">>,  \* cpe:2.3:a:nginx:>1.2.4:1.2.3
    <<"c", "p", "e", ":", "2", ".", "3", ":", "a", ":", "n", "g", "i", "n", "x", ":", ">", "=", "3", ".", "0", ".", "0", ":", "1", ".", "2", ".", "3">>,  \* cpe:2.3:a:nginx:>=3.0.0:1.2.3
    <<"c", "p", "e", ":", "2", ".", "3", ":", "a">>,  \* cpe:2.3:a
    <<"*">>,  \* *
    <<>>  \* (empty)
    }

\* CPEVersionMatcher.extract_cpe_versions: parts[4] of the string split at ":"
extract_cpe_versions(cpe_string) ==
    LET parts == Split(cpe_string, ":")
    IN  IF Len(parts) < 5 THEN <<>>
        ELSE IF parts[5] # <<"*">> THEN <<parts[5]>> ELSE <<>>

\* the points of one position of the two lists of digit runs, in halves
PartPoints(v1_parts, v2_parts, i) ==
    LET v1_num == IF i <= Len(v1_parts) THEN ToInt(v1_parts[i]) ELSE 0
        v2_num == IF i <= Len(v2_parts) THEN ToInt(v2_parts[i]) ELSE 0
        diff == IF v1_num < v2_num THEN v2_num - v1_num ELSE v1_num - v2_num
    IN  IF v1_num = v2_num THEN 2 ELSE IF diff <= 1 THEN 1 ELSE 0

RECURSIVE SumPoints(_, _, _)
SumPoints(v1_parts, v2_parts, i) ==
    IF i = 0 THEN 0
    ELSE SumPoints(v1_parts, v2_parts, i - 1) + PartPoints(v1_parts, v2_parts, i)

\* CPEVersionMatcher._calculate_version_similarity
calculate_version_similarity(v1, v2) ==
    LET v1_parts == FindDigitRuns(v1)
        v2_parts == FindDigitRuns(v2)
        max_parts == Max(Len(v1_parts), Len(v2_parts))
    IN  IF compare_versions(v1, v2) = 0 THEN Frac(1, 1)
        ELSE IF v1_parts = <<>> \/ v2_parts = <<>> THEN Frac(0, 1)
        ELSE Frac(SumPoints(v1_parts, v2_parts, max_parts), 2 * max_parts)

\* the best match after a similarity (version_matcher.py:270-273)
BestAfter(similarity, best) ==
    IF FracGt(similarity, best.confidence)
    THEN [matches |-> FracGt(similarity, Frac(7, 10)), confidence |-> similarity]
    ELSE best

\* the loop of match_cpe_version over cpe_versions from position i on
RECURSIVE MatchCpeLoop(_, _, _, _)
MatchCpeLoop(software_version, cpe_versions, i, best) ==
    IF i > Len(cpe_versions) THEN best
    ELSE IF software_version = cpe_versions[i]
    THEN [matches |-> TRUE, confidence |-> Frac(1, 1)]
    ELSE IF matches_version(software_version, cpe_versions[i])
    THEN [matches |-> TRUE, confidence |-> Frac(9, 10)]
    ELSE MatchCpeLoop(software_version, cpe_versions, i + 1,
             BestAfter(calculate_version_similarity(software_version, cpe_versions[i]),
                       best))

\* CPEVersionMatcher.match_cpe_version
match_cpe_version(software_version, cpe_string) ==
    IF cpe_string = <<>> \/ cpe_string = <<"*">>
    THEN [matches |-> TRUE, confidence |-> Frac(1, 2)]
    ELSE LET cpe_versions == extract_cpe_versions(cpe_string)
         IN  IF cpe_versions = <<>> THEN [matches |-> TRUE, confidence |-> Frac(1, 2)]
             ELSE MatchCpeLoop(software_version, cpe_versions, 1,
                               [matches |-> FALSE, confidence |-> Frac(0, 1)])

(***************************************************************************)
(* VersionSpec: compare_versions on three drawn versions, matches_version  *)
(* on a drawn version and range, match_cpe_version on a drawn version and  *)
(* CPE string.                                                             *)
(***************************************************************************)
VersionCalls ==
    [op : {"compare"}, a : Versions, b : Versions, c : Versions]
        \cup [op : {"matches"}, version : Versions, range : Ranges]
        \cup [op : {"match_cpe"}, version : SoftwareVersions, cpe : CpeStrings]

VersionSpecInit ==
    /\ verIn \in VersionCalls
    /\ verOut = [done |-> FALSE]
    /\ CveIdle
    /\ ClientIdle
    /\ CacheInit
    /\ enabled = TRUE
    /\ cacheOp = NoOp
    /\ MatchIdle
    /\ cpe_guesser_enabled = TRUE
    /\ pgvector_enabled = TRUE
    /\ max_concurrent_requests = MaxConcurrent
    /\ PipeIdle

\* compare_versions on each pair of the three versions
Compare ==
    /\ verIn.op = "compare"
    /\ ~verOut.done
    /\ verOut' = [done |-> TRUE,
                  aa |-> compare_versions(verIn.a, verIn.a),
                  ab |-> compare_versions(verIn.a, verIn.b),
                  ba |-> compare_versions(verIn.b, verIn.a),
                  bc |-> compare_versions(verIn.b, verIn.c),
                  ac |-> compare_versions(verIn.a, verIn.c)]
    /\ UNCHANGED <<verIn, cveVars, clientVars, cacheVars, cacheOp, matchVars, settingVars, pipeVars>>

MatchesVersion ==
    /\ verIn.op = "matches"
    /\ ~verOut.done
    /\ verOut' = [done |-> TRUE, ret |-> matches_version(verIn.version, verIn.range)]
    /\ UNCHANGED <<verIn, cveVars, clientVars, cacheVars, cacheOp, matchVars, settingVars, pipeVars>>

\* cpe_version_matcher.match_cpe_version(software_version, cpe_string)
MatchCpeVersion ==
    /\ verIn.op = "match_cpe"
    /\ ~verOut.done
    /\ verOut' = [done |-> TRUE, ret |-> match_cpe_version(verIn.version, verIn.cpe)]
    /\ UNCHANGED <<verIn, cveVars, clientVars, cacheVars, cacheOp, matchVars, settingVars, pipeVars>>

VersionSpecNext ==
    \/ Compare
    \/ MatchesVersion
    \/ MatchCpeVersion

VersionSpec == VersionSpecInit /\ [][VersionSpecNext]_vars

SameScheme(S) == \A v \in S, w \in S : detect_scheme(v) = detect_scheme(w)

\* C12: for versions a, b, c detected as the same scheme, compare_versions(a, a)
\* is 0, compare_versions(a, b) is the negation of compare_versions(b, a), and
\* a <= b with b <= c gives a <= c.
C12_TotalPreorder ==
    /\ verIn.op = "compare"
    /\ verOut.done
    /\ SameScheme({verIn.a, verIn.b, verIn.c})
    => /\ verOut.aa = 0
       /\ verOut.ab = -verOut.ba
       /\ (verOut.ab <= 0 /\ verOut.bc <= 0) => verOut.ac <= 0

C12_Witness ==
    /\ verIn.op = "compare"
    /\ verOut.done
    /\ verIn.a = <<"1", ".", "2", ".", "3", "-", "a">>
    /\ verIn.b = <<"1", ".", "2", ".", "3", "-", "b">>
    /\ verIn.c = <<"1", ".", "2", ".", "3">>
    /\ SameScheme({verIn.a, verIn.b, verIn.c})
    /\ verOut.ab = -1
    /\ verOut.bc = -1
    /\ verOut.ac = -1

\* what an operator of a range asks of the comparison with its version
Satisfies(version, constraint) ==
    LET c == compare_versions(version, constraint.version)
    IN  CASE constraint.operator = <<"<">> -> c < 0
          [] constraint.operator = <<"<", "=">> -> c <= 0
          [] constraint.operator = <<">">> -> c > 0
          [] constraint.operator = <<">", "=">> -> c >= 0
          [] constraint.operator \in {<<"=">>, <<"=", "=">>} -> c = 0
          [] constraint.operator = <<"!", "=">> -> c # 0
          [] OTHER -> FALSE

\* C13: matches_version(v, r) is true exactly when v satisfies every
\* comma-separated constraint of r; an empty range and "*" match every
\* version; "1.2.3" matches "<1.2.4,>=1.2.0"; "1.2.4" does not match "<1.2.4".
C13_RangeConjunction ==
    verIn.op = "matches" /\ verOut.done =>
        LET ranges == parse_range(verIn.range)
        IN  /\ verOut.ret = \A n \in 1..Len(ranges) : Satisfies(verIn.version, ranges[n])
            /\ (verIn.range = <<>> \/ Strip(verIn.range) = <<"*">>) => verOut.ret
            /\ (verIn.version = <<"1", ".", "2", ".", "3">> /\ verIn.range = <<"<", "1", ".", "2", ".", "4", ",", ">", "=", "1", ".", "2", ".", "0">>) => verOut.ret
            /\ (verIn.version = <<"1", ".", "2", ".", "4">> /\ verIn.range = <<"<", "1", ".", "2", ".", "4">>) => ~verOut.ret

C13_Witness ==
    /\ verIn.op = "matches"
    /\ verOut.done
    /\ verIn.version = <<"1", ".", "2", ".", "4">>
    /\ verIn.range = <<"<", "1", ".", "2", ".", "4", ",", ">", "=", "1", ".", "2", ".", "0">>
    /\ Len(parse_range(verIn.range)) = 2
    /\ ~Satisfies(verIn.version, parse_range(verIn.range)[1])
    /\ Satisfies(verIn.version, parse_range(verIn.range)[2])
    /\ ~verOut.ret

(***************************************************************************)
(* cve_enrichment.py: CVEEnrichmentService.enrich_software, a sequential   *)
(* loop over the list.  The items are dicts (List[Dict]); a name that is   *)
(* no str makes search_local_cve_data raise.  The similarity matcher and   *)
(* the two online sources are the environment.                             *)
(***************************************************************************)
MaxCveBatch == 3

CveNames == {PyStr("nginx"), PyStr("openssl"), None}
CveItems == [name : CveNames, version : {"1.18.0"}]
CveLists == UNION {[1..n -> CveItems] : n \in 0..MaxCveBatch}

\* self.local_cve_data as search_local_cve_data reads it (lines 176-224):
\* the ids of the entries whose description holds the name
search_local_cve_data(name) ==
    IF name = PyStr("nginx") THEN <<"CVE-2021-23017", "CVE-2021-23017">> ELSE <<>>

RECURSIVE UniqueIds(_)
\* unique_cves (lines 156-163): the first entry of each id, in order
UniqueIds(cves) ==
    IF cves = <<>> THEN <<>>
    ELSE LET front == UniqueIds(SubSeq(cves, 1, Len(cves) - 1))
             last == cves[Len(cves)]
         IN  IF \E n \in 1..Len(front) : front[n] = last THEN front ELSE Append(front, last)

\* what the environment answers during one item
CveEnvs ==
    [cpe_raises : BOOLEAN,
     cpe_identifier : {None, PyStr("cpe:2.3:a:nginx:nginx")},
     fresh : BOOLEAN,
     nvd : {<<>>, <<"CVE-2022-0778">>},
     cve_search : {<<>>, <<"CVE-2022-0778">>}]

\* f"{software_name}_{version or 'any'}_{cpe_identifier or 'none'}" (line 120)
cve_cache_key(name, version, cpe_identifier) ==
    <<name, IF version = "" THEN "any" ELSE version,
      IF cpe_identifier = None THEN PyStr("none") ELSE cpe_identifier>>

CveCached(cache, key) == \E n \in 1..Len(cache) : cache[n].key = key
CveCachedCves(cache, key) == cache[CHOOSE n \in 1..Len(cache) : cache[n].key = key].cves
CveCachePut(cache, key, cves) ==
    SelectSeq(cache, LAMBDA e : e.key # key) \o <<[key |-> key, cves |-> cves]>>

\* CVEEnrichmentService.search_cves (lines 115-174); search_nvd and
\* search_cve_search catch every exception and return a list
search_cves(cache, name, version, cpe_identifier, env) ==
    LET key == cve_cache_key(name, version, cpe_identifier)
        local == search_local_cve_data(name)
        cves == UniqueIds(IF local # <<>> THEN local ELSE env.nvd \o env.cve_search)
    IN  IF CveCached(cache, key) /\ env.fresh
        THEN [raised |-> FALSE, cves |-> CveCachedCves(cache, key), cache |-> cache]
        ELSE IF name.t # "str"
        THEN [raised |-> TRUE, cves |-> <<>>, cache |-> cache]
        ELSE [raised |-> FALSE, cves |-> cves, cache |-> CveCachePut(cache, key, cves)]

\* the try block of one item (lines 58-95)
CveTry(cache, software, env) ==
    IF env.cpe_raises THEN [raised |-> TRUE, cves |-> <<>>, cache |-> cache]
    ELSE search_cves(cache, software.name, software.version, env.cpe_identifier, env)

\* variant: an item whose processing raised is skipped
enrich_one_skipping(records, cache, software, env) ==
    LET r == CveTry(cache, software, env)
    IN  IF r.raised THEN records
        ELSE Append(records, [software |-> software, cves |-> r.cves,
                              vulnerability_count |-> Len(r.cves),
                              cpe_identifier |-> env.cpe_identifier, error |-> None])

\* one iteration of the loop (lines 56-108): the list with the item's record
\* appended; error is None where the record has no 'error' key
enrich_one(records, cache, software, env) ==
    LET r == CveTry(cache, software, env)
    IN  IF r.raised
        THEN Append(records, [software |-> software, cves |-> <<>>,
                              vulnerability_count |-> 0,
                              cpe_identifier |-> None, error |-> PyStr("str(e)")])
        ELSE Append(records, [software |-> software, cves |-> r.cves,
                              vulnerability_count |-> Len(r.cves),
                              cpe_identifier |-> env.cpe_identifier, error |-> None])

CveSpecInit ==
    /\ CveIdle
    /\ VersionIdle
    /\ ClientIdle
    /\ CacheInit
    /\ enabled = TRUE
    /\ cacheOp = NoOp
    /\ MatchIdle
    /\ cpe_guesser_enabled = TRUE
    /\ pgvector_enabled = TRUE
    /\ max_concurrent_requests = MaxConcurrent
    /\ PipeIdle

\* enrich_software is called (lines 48-54)
CveCall(list) ==
    /\ cvePos \in {0, Len(cveList) + 1}
    /\ cveList' = list
    /\ cvePos' = 1
    /\ enriched_results' = <<>>
    /\ cveRaised' = <<>>
    /\ UNCHANGED <<cveCache, verIn, verOut, clientVars, cacheVars, cacheOp, matchVars, settingVars, pipeVars>>

\* the body of the loop for the item at cvePos
CveItem(env) ==
    /\ cvePos \in 1..Len(cveList)
    /\ LET software == cveList[cvePos]
           r == CveTry(cveCache, software, env)
       IN  /\ enriched_results' = enrich_one(enriched_results, cveCache, software, env)
           /\ cveCache' = r.cache
           /\ cveRaised' = Append(cveRaised, r.raised)
    /\ cvePos' = cvePos + 1
    /\ UNCHANGED <<cveList, verIn, verOut, clientVars, cacheVars, cacheOp, matchVars, settingVars, pipeVars>>

CveSpecNext ==
    \/ \E list \in CveLists : CveCall(list)
    \/ \E env \in CveEnvs : CveItem(env)

CveSpec == CveSpecInit /\ [][CveSpecNext]_vars

\* enrich_software has returned enriched_results
CveReturned == cvePos = Len(cveList) + 1

StageOrder == <<"cache_get", "find_cpe", "by_cpe", "by_text", "nvd", "cache_set">>
StageRank(call) == CHOOSE n \in 1..Len(StageOrder) : StageOrder[n] = call
Called(bi, call) == \E n \in 1..Len(TaskOf(bi).calls) : TaskOf(bi).calls[n] = call

\* C16: on a miss the identifier query runs only when an identifier was
\* resolved, the text query only when the identifier query gave nothing,
\* the feed only when both gave nothing, and no stage runs after one that
\* returned a non-empty list.
C16_FallbackOrder ==
    \A bi \in Tasks :
        /\ \A n \in 1..Len(TaskOf(bi).calls) : \A m \in 1..(n - 1) :
              StageRank(TaskOf(bi).calls[m]) < StageRank(TaskOf(bi).calls[n])
        /\ Called(bi, "by_cpe") => Called(bi, "find_cpe") /\ TaskOf(bi).cpe \notin {"", "unset"}
        /\ Called(bi, "by_text") => Called(bi, "find_cpe") /\ TaskOf(bi).stage # "by_cpe"
        /\ Called(bi, "nvd") => Called(bi, "by_text") /\ TaskOf(bi).stage \notin {"by_cpe", "by_text"}
        /\ TaskOf(bi).stage = "by_cpe" => Called(bi, "by_cpe")
        /\ TaskOf(bi).stage = "by_text" => Called(bi, "by_text")
        /\ TaskOf(bi).stage \in {"nvd", "none"} => Called(bi, "nvd")

C16_Witness ==
    \E bi \in Returned :
        /\ TaskOf(bi).stage = "by_text"
        /\ TaskOf(bi).calls = <<"cache_get", "find_cpe", "by_cpe", "by_text", "cache_set">>

\* a step in which the Redis get of task (b, i) fails goes on to identifier
\* resolution, as after a miss
CacheGetFailureIsMiss(b, i) ==
    GetL2(b, i, TRUE) =>
        /\ task'[b][i].pc = "lookup"
        /\ task'[b][i].source # "cache"
        /\ l1_cache' = l1_cache

\* a step in which the identifier query of task (b, i) fails goes on to the
\* text query and takes what it gives
CpeQueryFailureIsEmpty(b, i) ==
    \A env \in PipeMatchEnvs, text_raises \in BOOLEAN :
        LET item == software_list[b][i]
            by_text == get_vulns_by_text(item.name, item.version, text_raises)
        IN  Lookup(b, i, env, TRUE, text_raises) /\ ResolvedCpe[item, env] # "" =>
                /\ \E n \in 1..Len(task'[b][i].calls) : task'[b][i].calls[n] = "by_text"
                /\ task'[b][i].stage # "by_cpe"
                /\ by_text # <<>> => /\ task'[b][i].stage = "by_text"
                                     /\ task'[b][i].vulns = enrich_with_threat_intel(by_text)
                /\ by_text = <<>> => task'[b][i].pc = "nvd"

\* a step in which the text query of task (b, i) fails goes on to the feed
TextQueryFailureIsEmpty(b, i) ==
    \A env \in PipeMatchEnvs, cpe_raises \in BOOLEAN :
        LET item == software_list[b][i]
            cpe == ResolvedCpe[item, env]
        IN  /\ Lookup(b, i, env, cpe_raises, TRUE)
            /\ (cpe = "" \/ get_vulns_by_cpe(cpe, cpe_raises) = <<>>)
            => /\ task'[b][i].pc = "nvd"
               /\ task'[b][i].calls[Len(task'[b][i].calls)] = "nvd"

\* a step in which the feed call of task (b, i) fails ends the stages with
\* an empty list, which is cached and returned
FeedFailureIsEmpty(b, i) ==
    Nvd(b, i, TRUE) =>
        /\ task'[b][i].pc \in {"set_l2", "returned"}
        /\ task'[b][i].vulns = <<>>
        /\ task'[b][i].stage = "none"
        /\ task'[b][i].calls[Len(task'[b][i].calls)] = "cache_set"

\* no pipeline of a dict item ends with an exception, and every dict item
\* is in the list enrich_software returns
NoFailurePropagates ==
    /\ \A bi \in Tasks : ItemOf(bi).dict => TaskOf(bi).pc # "raised"
    /\ \A b \in Batches :
          phase[b] = "returned" =>
              \A i \in 1..Len(task[b]) :
                  software_list[b][i].dict =>
                      \E r \in 1..Len(results[b]) : results[b][r].input_index = i

\* C17: a failed Redis get, a failed store query and a failed feed call are
\* taken as an empty answer of that stage: the pipeline goes on with the
\* next stage, and no such failure ends a pipeline with an exception or
\* drops its item from the list enrich_software returns.
C17_FailureIsEmptyResult ==
    /\ []NoFailurePropagates
    /\ [][\A b \in Batches, i \in 1..MaxBatch :
             /\ CacheGetFailureIsMiss(b, i)
             /\ CpeQueryFailureIsEmpty(b, i)
             /\ TextQueryFailureIsEmpty(b, i)
             /\ FeedFailureIsEmpty(b, i)]_vars

\* the identifier of nginx resolved and the store and the feed hold records
\* for it, yet its pipeline returned an empty list: every stage failed
C17_Witness ==
    \E bi \in Returned :
        /\ ItemOf(bi) = ItemNginx
        /\ TaskOf(bi).cpe = CPE_NGINX
        /\ get_vulns_by_cpe(CPE_NGINX, FALSE) # <<>>
        /\ get_vulns_by_text(ItemNginx.name, ItemNginx.version, FALSE) # <<>>
        /\ get_vulns_from_nvd(ItemNginx.name, ItemNginx.version, FALSE) # <<>>
        /\ TaskOf(bi).calls = <<"cache_get", "find_cpe", "by_cpe", "by_text", "nvd", "cache_set">>
        /\ TaskOf(bi).vulns = <<>>
        /\ TaskOf(bi).source = "none"
        /\ phase[bi[1]] = "returned"
        /\ \E r \in 1..Len(results[bi[1]]) : results[bi[1]][r].input_index = bi[2]

(***************************************************************************)
(* Claims about CacheManager alone (CacheSpec), read on the calls as they  *)
(* happen: the tiers before a call are the unprimed variables, the call's  *)
(* outcome and the tiers after it the primed ones.                         *)
(***************************************************************************)
\* get(key) returns without a request to Redis when the key is in-process
ServedLocally(key, fail) ==
    (CGet(key, fail) /\ L1Contains(l1_cache, key)) => ~cacheOp'.redis_called

\* get(key) finds the key in Redis only (caching on, Redis connected and
\* answering): it returns a value and the in-process tier then holds the
\* key with that value
PopulatedFromRedis(key, fail) ==
    (/\ CGet(key, fail)
     /\ enabled /\ redis_client /\ ~fail
     /\ ~L1Contains(l1_cache, key)
     /\ key \in DOMAIN redis_data)
    => /\ cacheOp'.ret # None
       /\ L1Contains(l1_cache', key)
       /\ L1Entry(l1_cache', key).value = cacheOp'.ret

DeleteRemoved ==
    cacheOp.op = "delete" =>
        /\ ~cacheOp.raised
        /\ ~L1Contains(l1_cache, cacheOp.key)
        /\ (cacheOp.redis_called /\ ~cacheOp.redis_failed)
               => cacheOp.key \notin DOMAIN redis_data

\* a key that a delete with Redis reachable removed stays out of both tiers
\* until it is set again, and a get of it returns None
DeletedStaysAway ==
    /\ \A key \in cacheOp.deleted :
           ~L1Contains(l1_cache, key) /\ key \notin DOMAIN redis_data
    /\ (cacheOp.op = "get" /\ cacheOp.key \in cacheOp.deleted)
           => cacheOp.ret = None /\ ~cacheOp.raised

\* C19: delete(k) removes k from both tiers: after a delete(k) with the
\* distributed tier reachable, get(k) returns no value until the next
\* set(k, ...); a distributed-tier failure during delete does not raise and
\* still removes k from the in-process tier.
C19_DeleteRemovesBoth == DeleteRemoved /\ DeletedStaysAway

\* a get asked Redis for a key that was cached before a delete removed it,
\* and returned None
C19_Witness ==
    /\ cacheOp.op = "get"
    /\ cacheOp.key \in cacheOp.deleted
    /\ cacheOp.redis_called
    /\ cacheOp.ret = None

\* the in-process tier never holds more than maxsize entries
CapacityHeld == Len(l1_cache) <= L1_MAXSIZE

\* a get answered by the in-process tier returns the value of an entry that
\* is younger than the ttl
NeverStale ==
    (cacheOp.op = "get" /\ cacheOp.ret # None /\ ~cacheOp.redis_called)
    => \E n \in 1..Len(l1_cache) :
          /\ l1_cache[n].key = cacheOp.key
          /\ l1_cache[n].value = cacheOp.ret
          /\ l1_cache[n].age < L1_TTL

\* a set drops at most one live entry, and only to store a new key in a
\* full tier
EvictsForRoom ==
    (cacheOp.op = "set" /\ cacheOp.evicted # {})
    => /\ Cardinality(cacheOp.evicted) = 1
       /\ cacheOp.key \notin cacheOp.evicted
       /\ Len(l1_cache) = L1_MAXSIZE

\* C20: the in-process tier holds at most its capacity of entries and never
\* returns an entry older than its ttl; when a set of a new key would exceed
\* capacity, the entry dropped is the oldest-inserted one.
C20_EvictsOldestInserted ==
    /\ CapacityHeld
    /\ NeverStale
    /\ EvictsForRoom
    /\ (cacheOp.op = "set" /\ cacheOp.evicted # {})
          => cacheOp.evicted = {cacheOp.oldest}

\* C20 as the code has it: the entry dropped for room is the least recently
\* used one, where a get served by the in-process tier and a set both count
\* as a use.
C20_EvictsLeastRecentlyUsed ==
    /\ CapacityHeld
    /\ NeverStale
    /\ EvictsForRoom
    /\ (cacheOp.op = "set" /\ cacheOp.evicted # {})
          => cacheOp.evicted = {cacheOp.lru}

\* a set in a full tier dropped the least recently used entry while the
\* oldest-inserted one, read since, stayed
C20_Witness ==
    /\ cacheOp.op = "set"
    /\ cacheOp.evicted = {cacheOp.lru}
    /\ cacheOp.lru # cacheOp.oldest
    /\ L1Contains(l1_cache, cacheOp.oldest)
    /\ Len(l1_cache) = L1_MAXSIZE

(***************************************************************************)
(* Two pipelines for the same key                                          *)
(***************************************************************************)
KeyOf(bi) == cache_key(ItemOf(bi).name, ItemOf(bi).version, ItemOf(bi).vendor)

\* the pipelines that have executed cache_manager.set for the key
Wrote(key) == {bi \in Tasks : KeyOf(bi) = key /\ Called(bi, "cache_set")}

\* a pipeline that has ended either took a cached list or returned an item
\* with its identifier, its list and its source after writing the list
ReturnedComplete(bi) ==
    /\ TaskOf(bi).pc = "returned"
    /\ \/ TaskOf(bi).source = "cache" /\ TaskOf(bi).hit
       \/ /\ Called(bi, "cache_set")
          /\ TaskOf(bi).cpe # "unset"
          /\ TaskOf(bi).source \in {"db", "nvd", "none"}

\* what each tier holds for a key is the list one pipeline wrote, whole
EntryIsOneWrittenList(key) ==
    /\ L1Contains(l1_cache, key)
          => \E w \in Wrote(key) :
                L1Entry(l1_cache, key).value = PyList(TaskOf(w).vulns)
    /\ key \in DOMAIN redis_data
          => \E w \in Wrote(key) :
                /\ TaskOf(w).pc = "returned"
                /\ redis_data[key] = Serialize(PyList(TaskOf(w).vulns))

\* C21: two pipelines for the same key that both miss the cache may both
\* compute and both write; each returns a complete result, and the cache
\* entry of the key is the vulnerability list one of them wrote, never a
\* mixture of lists or a damaged value.
C21_SameKeyIdempotent ==
    /\ \A bi \in Tasks :
          (ItemOf(bi).dict /\ Finished(TaskOf(bi))) => ReturnedComplete(bi)
    /\ \A key \in CacheKeys : EntryIsOneWrittenList(key)

\* two pipelines for one key were computing at the same time, wrote
\* different lists and have both returned; both tiers hold the key
C21_Witness ==
    \E x \in Tasks, y \in Tasks :
        /\ x # y
        /\ KeyOf(x) = KeyOf(y)
        /\ TaskOf(y).met
        /\ TaskOf(x).pc = "returned" /\ TaskOf(y).pc = "returned"
        /\ Called(x, "cache_set") /\ Called(y, "cache_set")
        /\ TaskOf(x).vulns # TaskOf(y).vulns
        /\ L1Contains(l1_cache, KeyOf(x))
        /\ KeyOf(x) \in DOMAIN redis_data

\* the pipelines awaiting the external feed (http_client.get of
\* _get_vulns_from_nvd)
AtFeed == {bi \in Tasks : TaskOf(bi).pc = "nvd"}

\* C22: the external-fetch path has a tighter concurrency bound than the
\* cache/store path: the number of outstanding external-feed calls stays
\* below the limit on the items inside the pipeline (a limit of one item
\* leaves no room for a smaller one and is left out).
C22_FeedBoundTighter ==
    max_concurrent_requests > 1 => Cardinality(AtFeed) < max_concurrent_requests

(***************************************************************************)
(* LRUCache (cpe_guesser_client.py:17-55): self.cache is an OrderedDict,   *)
(* kept as the sequence of its entries in dict order, self.timestamps a    *)
(* dict from key to the time of the last set.  max_size and ttl are        *)
(* scaled down (10000 entries and 3600 s in the program).                  *)
(***************************************************************************)
LRU_MAX_SIZE == 2
LRU_TTL == 1
MaxClock == 3

\* _cache_key values and the result lists, (rank, cpe) pairs, of the model
LruKeys == {"nginx", "http|server", "openssl"}
LruValues == {<<>>, <<<<1, CPE_NGINX>>>>}

\* key in self.cache
LruHas(c, key) == \E n \in 1..Len(c.cache) : c.cache[n].key = key

\* self.cache[key]
LruValue(c, key) == c.cache[CHOOSE n \in 1..Len(c.cache) : c.cache[n].key = key].value

LruCacheKeys(c) == {c.cache[n].key : n \in 1..Len(c.cache)}

\* variant: the dict order is left as it is
LruOrderKept(c, key) == c

\* self.cache.move_to_end(key)
LruMoveToEnd(c, key) ==
    [c EXCEPT !.cache = Append(SelectSeq(@, LAMBDA e : e.key # key),
                               [key |-> key, value |-> LruValue(c, key)])]

\* variant: _remove pops the entry and leaves the timestamp
LRUCache_remove_entry_only(c, key) ==
    [c EXCEPT !.cache = SelectSeq(@, LAMBDA e : e.key # key)]

\* LRUCache._remove, lines 52-55
LRUCache_remove(c, key) ==
    [cache |-> SelectSeq(c.cache, LAMBDA e : e.key # key),
     timestamps |-> [k \in DOMAIN c.timestamps \ {key} |-> c.timestamps[k]]]

\* self.timestamps.get(key, 0)
LruStamp(c, key) == IF key \in DOMAIN c.timestamps THEN c.timestamps[key] ELSE 0

\* LRUCache.get, lines 25-37: hit = FALSE stands for the None it returns
LRUCache_get(c, key, now) ==
    IF ~LruHas(c, key)
    THEN [hit |-> FALSE, value |-> <<>>, lru |-> c]
    ELSE IF now - LruStamp(c, key) > LRU_TTL
    THEN [hit |-> FALSE, value |-> <<>>, lru |-> LRUCache_remove(c, key)]
    ELSE [hit |-> TRUE, value |-> LruValue(c, key), lru |-> LruMoveToEnd(c, key)]

\* LRUCache.set, lines 39-50
LRUCache_set(c, key, value, now) ==
    LET room == IF LruHas(c, key) THEN LruMoveToEnd(c, key)
                ELSE IF Len(c.cache) >= LRU_MAX_SIZE
                THEN LRUCache_remove(c, c.cache[1].key)
                ELSE c
        stored == IF LruHas(room, key)
                  THEN [n \in 1..Len(room.cache) |->
                           IF room.cache[n].key = key
                           THEN [key |-> key, value |-> value]
                           ELSE room.cache[n]]
                  ELSE Append(room.cache, [key |-> key, value |-> value])
    IN  [cache |-> stored,
         timestamps |-> [k \in DOMAIN room.timestamps \cup {key} |->
                            IF k = key THEN now ELSE room.timestamps[k]]]

(***************************************************************************)
(* LruSpec: one caller drives an LRUCache with get and set while the clock *)
(* advances.                                                               *)
(***************************************************************************)
LruSpecInit ==
    /\ LruIdle
    /\ NetIdle
    /\ RestIdle
    /\ VersionIdle
    /\ CveIdle
    /\ CacheInit
    /\ enabled = TRUE
    /\ cacheOp = NoOp
    /\ MatchIdle
    /\ cpe_guesser_enabled = TRUE
    /\ pgvector_enabled = TRUE
    /\ max_concurrent_requests = MaxConcurrent
    /\ PipeIdle

\* the keys of a use history that are still cached
LruKept(used, c) == SelectSeq(used, LAMBDA k : k \in LruCacheKeys(c))

LruUsed(used, c, key) ==
    IF key \in LruCacheKeys(c)
    THEN Append(SelectSeq(LruKept(used, c), LAMBDA k : k # key), key)
    ELSE LruKept(used, c)

LGet(key) ==
    LET r == LRUCache_get(lru, key, lru_now) IN
    /\ lru' = r.lru
    /\ lruOp' = [NoLruOp EXCEPT
                   !.op = "get", !.key = key, !.hit = r.hit, !.value = r.value,
                   !.age = IF LruHas(lru, key) THEN lru_now - LruStamp(lru, key) ELSE -1,
                   !.used = IF r.hit THEN LruUsed(lruOp.used, r.lru, key)
                            ELSE LruKept(lruOp.used, r.lru)]
    /\ UNCHANGED <<lru_now, net, restVars, verIn, verOut, cveVars, cacheVars, cacheOp, matchVars,
                   settingVars, pipeVars>>

LSet(key, value) ==
    LET c == LRUCache_set(lru, key, value, lru_now)
        evicted == LruCacheKeys(lru) \ LruCacheKeys(c)
    IN
    /\ lru' = c
    /\ lruOp' = [NoLruOp EXCEPT
                   !.op = "set", !.key = key, !.value = value,
                   !.evicted = evicted,
                   !.evicted_stamp = IF evicted = {} THEN -1
                                     ELSE LruStamp(lru, CHOOSE k \in evicted : TRUE),
                   !.overflow = ~LruHas(lru, key) /\ Len(lru.cache) >= LRU_MAX_SIZE,
                   !.lru_key = IF lruOp.used = <<>> THEN "" ELSE Head(lruOp.used),
                   !.used = LruUsed(lruOp.used, c, key)]
    /\ UNCHANGED <<lru_now, net, restVars, verIn, verOut, cveVars, cacheVars, cacheOp, matchVars,
                   settingVars, pipeVars>>

\* time.time() advances
LTick ==
    /\ lru_now < MaxClock
    /\ lru_now' = lru_now + 1
    /\ lruOp' = [NoLruOp EXCEPT !.used = lruOp.used]
    /\ UNCHANGED <<lru, net, restVars, verIn, verOut, cveVars, cacheVars, cacheOp, matchVars,
                   settingVars, pipeVars>>

LruSpecNext ==
    \/ \E key \in LruKeys : LGet(key)
    \/ \E key \in LruKeys, value \in LruValues : LSet(key, value)
    \/ LTick

LruSpec == LruSpecInit /\ [][LruSpecNext]_vars

\* C27: after any sequence of get and set (gets that expire entries and
\* sets that evict included) the cache holds at most max_size entries and
\* the timestamp map has exactly the keys of the entry map.
C27_LruStructure ==
    /\ Len(lru.cache) <= LRU_MAX_SIZE
    /\ DOMAIN lru.timestamps = LruCacheKeys(lru)
    /\ Cardinality(LruCacheKeys(lru)) = Len(lru.cache)

\* a set into a full cache evicted an entry, at a time at which entries
\* written at the start have expired
C27_Witness ==
    /\ lruOp.op = "set"
    /\ lruOp.overflow
    /\ lruOp.evicted # {}
    /\ Len(lru.cache) = LRU_MAX_SIZE
    /\ lru_now > LRU_TTL

\* the dict order of the cache is the order of last use
OrderIsLastUse == [n \in 1..Len(lru.cache) |-> lru.cache[n].key] = lruOp.used

\* a set evicts exactly when its key is new and the cache is full, and then
\* the one entry it evicts is the least recently used
EvictsLeastRecentlyUsed ==
    lruOp.op = "set" =>
        IF lruOp.overflow
        THEN lruOp.evicted = {lruOp.lru_key} /\ lruOp.key # lruOp.lru_key
        ELSE lruOp.evicted = {}

\* get returns an entry only while its age is at most ttl, and removes the
\* entry it finds older
ExpiredNotReturned ==
    lruOp.op = "get" =>
        /\ lruOp.hit => /\ lruOp.age \in 0..LRU_TTL
                        /\ LruHas(lru, lruOp.key)
                        /\ LruValue(lru, lruOp.key) = lruOp.value
        /\ lruOp.age > LRU_TTL =>
               /\ ~lruOp.hit
               /\ ~LruHas(lru, lruOp.key)
               /\ lruOp.key \notin DOMAIN lru.timestamps

\* set stores the value and starts the entry's ttl at the time of the call
SetRestartsTtl ==
    lruOp.op = "set" =>
        /\ LruHas(lru, lruOp.key)
        /\ LruValue(lru, lruOp.key) = lruOp.value
        /\ LruStamp(lru, lruOp.key) = lru_now

\* C28: a set of a new key into a full cache evicts the single least
\* recently used entry, where a successful get and a set of an existing key
\* both count as a use; get never returns an entry older than ttl and
\* removes such an entry; a set of an existing key restarts its ttl.
C28_LruRecencyAndExpiry ==
    /\ OrderIsLastUse
    /\ EvictsLeastRecentlyUsed
    /\ ExpiredNotReturned
    /\ SetRestartsTtl

\* a set evicted the least recently used entry although an entry written
\* before it is still cached: that one was used since
C28_Witness ==
    /\ lruOp.op = "set"
    /\ lruOp.overflow
    /\ lruOp.evicted = {lruOp.lru_key}
    /\ \E k \in LruCacheKeys(lru) \ {lruOp.key} :
           LruStamp(lru, k) < lruOp.evicted_stamp

(***************************************************************************)
(* The external network calls and their retries.                           *)
(*   nvd_keyword     EnrichmentService._get_vulns_from_nvd                 *)
(*   fetch_nvd_data  EnrichmentService.fetch_nvd_data, under tenacity      *)
(*   api_request     UltraOptimizedEnrichmentService._make_api_request,    *)
(*                   under tenacity                                        *)
(*   guess_cpe       CPEGuesserClient.guess_cpe, whose result cache is the *)
(*                   LRUCache in lru                                       *)
(* Waits are in milliseconds.                                              *)
(***************************************************************************)
stop_after_attempt == 3
max_retries == 3

RECURSIVE Pow2(_)
Pow2(n) == IF n = 0 THEN 1 ELSE 2 * Pow2(n - 1)


\* tenacity wait_exponential(multiplier=1, min=4, max=10) after the given
\* attempt: multiplier * 2^(attempt_number - 1), clamped to [min, max]
wait_exponential(attempt_number) ==
    Max(4000, Min(1000 * Pow2(attempt_number - 1), 10000))

\* wait_time = 0.5 * (2 ** attempt), cpe_guesser_client.py:183 and 191
guess_wait_time(attempt) == 500 * Pow2(attempt)

\* int(response.headers.get('Retry-After', 1)) seconds
retry_after == 1000

Sites == {"nvd_keyword", "fetch_nvd_data", "api_request", "guess_cpe"}

\* what the server may answer: a status 200 with a list of results, with an
\* empty list, with JSON of another shape or with a body that is not JSON;
\* an error status; or no answer (httpx.RequestError, timeout)
Replies == {"200:results", "200:empty", "200:other", "200:notjson",
            "404", "429", "500", "timeout"}

IsOk(reply) == reply \in {"200:results", "200:empty", "200:other", "200:notjson"}

\* the words guess_cpe is called with (services/cpe_matcher.py:222)
GuessWordLists == {<<>>, <<"server", "http">>}

WordOrder == <<"apache", "http", "nginx", "server">>
WordRank(w) == CHOOSE n \in 1..Len(WordOrder) : WordOrder[n] = w

RECURSIVE SortWords(_)
SortWords(words) ==
    IF words = <<>> THEN <<>>
    ELSE LET least == CHOOSE n \in 1..Len(words) :
                          \A m \in 1..Len(words) : WordRank(words[n]) <= WordRank(words[m])
         IN  <<words[least]>> \o
             SortWords([m \in 1..(Len(words) - 1) |->
                           IF m < least THEN words[m] ELSE words[m + 1]])

\* CPEGuesserClient._cache_key, lines 109-111: the words in lower case,
\* sorted; the model keeps the sorted list in place of its "|"-joined text
client_cache_key(words) == SortWords([n \in 1..Len(words) |-> Lower(words[n])])

\* the (rank, cpe) list guess_cpe builds from a 200 reply, lines 155-168
ParsedResults(reply) == IF reply = "200:results" THEN <<<<1, CPE_NGINX>>>> ELSE <<>>

Returns(n, value) == [n EXCEPT !.pc = "done", !.ret = [kind |-> "list", value |-> value]]
Raises(n) == [n EXCEPT !.pc = "done", !.ret = [kind |-> "raised", value |-> <<>>]]
Logged(n, reply, slept) == [n EXCEPT !.log = Append(@, [status |-> reply, slept |-> slept])]

\* the records read from a 200 reply of the NVD API, as (cvss_score, id)
NvdRecords(reply) == IF reply = "200:results" THEN <<<<0, "CVE-2021-23017">>>> ELSE <<>>

\* _get_vulns_from_nvd, enrichment.py:306-347: one request; whatever goes
\* wrong ends in `return []`
nvd_keyword_reply(n, reply) == Returns(Logged(n, reply, <<>>), NvdRecords(reply))

\* fetch_nvd_data, enrichment.py:349-360: raise_for_status, response.json()
\* and data.get("vulnerabilities", [{}])[0].get("cve") raise on everything
\* but a 200 with a non-empty list or JSON object without the key; tenacity
\* waits and calls again until the third attempt
fetch_nvd_data_reply(n, reply) ==
    IF reply \in {"200:results", "200:other"}
    THEN Returns(Logged(n, reply, <<>>), NvdRecords(reply))
    ELSE IF n.attempt >= stop_after_attempt
    THEN Raises(Logged(n, reply, <<>>))
    ELSE [Logged(n, reply, <<wait_exponential(n.attempt)>>) EXCEPT !.pc = "sleeping"]

\* _make_api_request, ultra_optimized_enrichment.py:310-328: a 429 sleeps
\* Retry-After seconds and raises, any other status but 200 raises, a body
\* that is not JSON raises in response.json
api_request_reply(n, reply) ==
    LET own == IF reply = "429" THEN <<retry_after>> ELSE <<>> IN
    IF reply \in {"200:results", "200:empty", "200:other"}
    THEN Returns(Logged(n, reply, <<>>), ParsedResults(reply))
    ELSE IF n.attempt >= stop_after_attempt
    THEN IF own = <<>> THEN Raises(Logged(n, reply, <<>>))
         ELSE [Logged(n, reply, own) EXCEPT !.pc = "sleeping"]
    ELSE [Logged(n, reply, own \o <<wait_exponential(n.attempt)>>) EXCEPT !.pc = "sleeping"]

\* variant: guess_cpe stores the empty list when it gives up
guess_cpe_reply_caching_failure(n, c, reply, now) ==
    IF reply \in {"200:results", "200:empty", "200:other"}
    THEN [net |-> Returns(Logged(n, reply, <<>>), ParsedResults(reply)),
          lru |-> IF n.use_cache
                  THEN LRUCache_set(c, client_cache_key(n.words), ParsedResults(reply), now)
                  ELSE c]
    ELSE IF reply \in {"200:notjson", "404"}
    THEN [net |-> Returns(Logged(n, reply, <<>>), <<>>), lru |-> c]
    ELSE IF n.attempt < max_retries
    THEN [net |-> [Logged(n, reply, <<guess_wait_time(n.attempt)>>) EXCEPT !.pc = "sleeping"],
          lru |-> c]
    ELSE [net |-> Returns(Logged(n, reply, <<>>), <<>>),
          lru |-> IF n.use_cache
                  THEN LRUCache_set(c, client_cache_key(n.words), <<>>, now)
                  ELSE c]

\* guess_cpe from a reply on, cpe_guesser_client.py:153-199
guess_cpe_reply(n, c, reply, now) ==
    IF reply \in {"200:results", "200:empty", "200:other"}
    THEN [net |-> Returns(Logged(n, reply, <<>>), ParsedResults(reply)),
          lru |-> IF n.use_cache
                  THEN LRUCache_set(c, client_cache_key(n.words), ParsedResults(reply), now)
                  ELSE c]
    ELSE IF reply \in {"200:notjson", "404"}
    THEN [net |-> Returns(Logged(n, reply, <<>>), <<>>), lru |-> c]
    ELSE IF n.attempt < max_retries
    THEN [net |-> [Logged(n, reply, <<guess_wait_time(n.attempt)>>) EXCEPT !.pc = "sleeping"],
          lru |-> c]
    ELSE [net |-> Returns(Logged(n, reply, <<>>), <<>>), lru |-> c]

\* guess_cpe up to its first request, cpe_guesser_client.py:128-144
guess_cpe_begin(n, c, now) ==
    IF ~cpe_guesser_enabled \/ n.words = <<>>
    THEN [net |-> Returns(n, <<>>), lru |-> c]
    ELSE IF n.use_cache
    THEN LET got == LRUCache_get(c, client_cache_key(n.words), now) IN
         IF got.hit THEN [net |-> Returns(n, got.value), lru |-> got.lru]
         ELSE [net |-> n, lru |-> got.lru]
    ELSE [net |-> n, lru |-> c]

(***************************************************************************)
(* NetSpec: one caller issues the external calls one after the other; the  *)
(* server's answers are free.                                              *)
(***************************************************************************)
NetSpecInit ==
    /\ NetIdle
    /\ LruIdle
    /\ RestIdle
    /\ VersionIdle
    /\ CveIdle
    /\ CacheInit
    /\ enabled = TRUE
    /\ cacheOp = NoOp
    /\ MatchIdle
    /\ cpe_guesser_enabled \in BOOLEAN
    /\ pgvector_enabled = TRUE
    /\ max_concurrent_requests = MaxConcurrent
    /\ PipeIdle

NetOthers == <<lruOp, restVars, verIn, verOut, cveVars, cacheVars, cacheOp, matchVars,
               settingVars, pipeVars>>

\* a call begins
NetCall(site, words, use_cache) ==
    /\ net.pc \in {"idle", "done"}
    /\ site = "guess_cpe" \/ (words = <<>> /\ ~use_cache)
    /\ LET n == [NoCall EXCEPT !.site = site, !.pc = "request",
                               !.attempt = IF site = "guess_cpe" THEN 0 ELSE 1,
                               !.words = words, !.use_cache = use_cache]
       IN  IF site = "guess_cpe"
           THEN LET r == guess_cpe_begin(n, lru, lru_now) IN
                net' = r.net /\ lru' = r.lru
           ELSE net' = n /\ lru' = lru
    /\ UNCHANGED <<lru_now, NetOthers>>

\* the request of the current attempt is answered
NetReply(reply) ==
    /\ net.pc = "request"
    /\ CASE net.site = "nvd_keyword" ->
               net' = nvd_keyword_reply(net, reply) /\ lru' = lru
         [] net.site = "fetch_nvd_data" ->
               net' = fetch_nvd_data_reply(net, reply) /\ lru' = lru
         [] net.site = "api_request" ->
               net' = api_request_reply(net, reply) /\ lru' = lru
         [] net.site = "guess_cpe" ->
               LET r == guess_cpe_reply(net, lru, reply, lru_now) IN
               net' = r.net /\ lru' = r.lru
    /\ UNCHANGED <<lru_now, NetOthers>>

\* the sleep ends: the next attempt, or tenacity's RetryError after the
\* last one
NetWake ==
    /\ net.pc = "sleeping"
    /\ net' = IF net.site # "guess_cpe" /\ net.attempt >= stop_after_attempt
              THEN Raises(net)
              ELSE [net EXCEPT !.pc = "request", !.attempt = @ + 1]
    /\ UNCHANGED <<lru, lru_now, NetOthers>>

\* time passes between calls
NetTick ==
    /\ net.pc \in {"idle", "done"}
    /\ lru_now < MaxClock
    /\ lru_now' = lru_now + 1
    /\ UNCHANGED <<lru, net, NetOthers>>

NetSpecNext ==
    \/ \E site \in Sites, words \in GuessWordLists, use_cache \in BOOLEAN :
          NetCall(site, words, use_cache)
    \/ \E reply \in Replies : NetReply(reply)
    \/ NetWake
    \/ NetTick

NetSpec == NetSpecInit /\ [][NetSpecNext]_vars

\* the replies after which a caller that retries sends the request again
Failure(reply) == reply \in {"429", "500", "timeout"}

\* the wait before the next attempt: the last sleep after a reply
Backoff(entry) == entry.slept[Len(entry.slept)]

\* no call sends more than three requests
AtMostThreeAttempts == Len(net.log) <= 3

\* a call that ended on a failed attempt had made three
FailureIsRetried ==
    (net.pc = "done" /\ net.log # <<>> /\ Failure(net.log[Len(net.log)].status))
    => Len(net.log) = 3

\* the waits between the attempts of a call grow
WaitsGrow ==
    \A k \in 1..(Len(net.log) - 2) : Backoff(net.log[k]) < Backoff(net.log[k + 1])

\* a 429 reply that is followed by another attempt is followed by a sleep
SleepAfter429 ==
    \A k \in 1..(Len(net.log) - 1) :
        net.log[k].status = "429" => net.log[k].slept # <<>>

\* C23: every external network call made for an item is retried a small
\* bounded number of times (3 attempts) with exponentially growing waits
\* between the attempts, a 429 reply is followed by a sleep before the next
\* attempt, and after the last failed attempt no further request is sent.
C23_BoundedRetries ==
    /\ AtMostThreeAttempts
    /\ FailureIsRetried
    /\ WaitsGrow
    /\ SleepAfter429

(***************************************************************************)
(* FairNetSpec: NetSpec in which an awaited reply arrives (the client's    *)
(* 5 s timeout ends a request that gets none) and a sleep ends.            *)
(***************************************************************************)
NetProgress == (\E reply \in Replies : NetReply(reply)) \/ NetWake

FairNetSpec == NetSpecInit /\ [][NetSpecNext]_vars /\ WF_vars(NetProgress)

Parsed(reply) == reply \in {"200:results", "200:empty", "200:other"}

GuessCall == net.site = "guess_cpe"
GuessKey == client_cache_key(net.words)
LastReply == net.log[Len(net.log)].status

\* guess_cpe does not raise and sends at most max_retries + 1 requests
GuessBounded ==
    GuessCall => /\ net.ret.kind # "raised"
                 /\ Len(net.log) <= max_retries + 1

\* the first reply that parses ends the call: its results are returned and,
\* when the cache is in use, cached, an empty list too
GuessSuccess ==
    (GuessCall /\ net.log # <<>> /\ Parsed(LastReply)) =>
        /\ net.pc = "done"
        /\ net.ret = [kind |-> "list", value |-> ParsedResults(LastReply)]
        /\ \A k \in 1..(Len(net.log) - 1) : Failure(net.log[k].status)
        /\ net.use_cache => /\ LruHas(lru, GuessKey)
                             /\ LruValue(lru, GuessKey) = ParsedResults(LastReply)

\* a 404 ends the call at once with an empty list
GuessNotFound ==
    \A k \in 1..Len(net.log) :
        (GuessCall /\ net.log[k].status = "404") =>
            /\ k = Len(net.log)
            /\ net.log[k].slept = <<>>
            /\ net.pc = "done"
            /\ net.ret = [kind |-> "list", value |-> <<>>]

\* after max_retries + 1 failed attempts the call ends with an empty list
GuessExhausted ==
    (/\ GuessCall
     /\ Len(net.log) = max_retries + 1
     /\ Failure(LastReply))
    => net.pc = "done" /\ net.ret = [kind |-> "list", value |-> <<>>]

\* a reply changes the cache only when it parses
GuessCachesSuccessOnly ==
    \A reply \in Replies :
        (NetReply(reply) /\ GuessCall /\ lru' # lru) => Parsed(reply)

\* C29: guess_cpe always terminates without raising after at most
\* max_retries + 1 requests: it returns the parsed results of the first
\* successful response and caches them, even when empty; it returns an
\* empty list at once on a 404 and once the attempts are exhausted; and it
\* never writes a failure outcome to its cache.
C29_GuessCpeTerminates ==
    /\ [](GuessBounded /\ GuessSuccess /\ GuessNotFound /\ GuessExhausted)
    /\ [][GuessCachesSuccessOnly]_vars
    /\ []<>(net.pc \in {"idle", "done"})

\* guess_cpe gave up after max_retries + 1 failed requests and returned an
\* empty list; its cache holds nothing for the words
C29_Witness ==
    /\ GuessCall
    /\ net.pc = "done"
    /\ Len(net.log) = max_retries + 1
    /\ Failure(LastReply)
    /\ net.use_cache
    /\ net.ret = [kind |-> "list", value |-> <<>>]
    /\ ~LruHas(lru, GuessKey)

(***************************************************************************)
(* The ordering of compare_versions within one scheme.                    *)
(***************************************************************************)
\* the part of a version before its qualifier, and the qualifier after "-"
ReleasePart(v) ==
    LET dash == IndexOf(v, "-")
        plus == IndexOf(v, "+")
        cut == IF dash # 0 /\ (plus = 0 \/ dash < plus) THEN dash
               ELSE IF plus # 0 THEN plus ELSE Len(v) + 1
    IN  SubSeq(v, 1, cut - 1)
Qualifier(v) ==
    LET dash == IndexOf(v, "-")
        plus == IndexOf(v, "+")
    IN  IF dash = 0 \/ (plus # 0 /\ plus < dash) THEN <<>>
        ELSE IF plus = 0 THEN From(v, dash + 1) ELSE SubSeq(v, dash + 1, plus - 1)

\* the numeric components of a version as integers, padded with zeros to width
NumericComponents(v, width) ==
    LET runs == FindDigitRuns(ReleasePart(v))
    IN  [n \in 1..width |-> IF n <= Len(runs) THEN ToInt(runs[n]) ELSE 0]

\* the order the numeric components give, then the qualifiers
ComponentOrder(v1, v2) ==
    LET width == Max(Len(FindDigitRuns(ReleasePart(v1))), Len(FindDigitRuns(ReleasePart(v2))))
    IN  CompareParsed([nums |-> NumericComponents(v1, width), prerelease |-> Qualifier(v1)],
                      [nums |-> NumericComponents(v2, width), prerelease |-> Qualifier(v2)])

\* C26: two versions detected as the same scheme are ordered by their
\* numeric components compared as integers left to right (10 after 9); with
\* all components equal a present prerelease sorts before its absence and
\* two present prereleases compare lexicographically.
C26_NumericComponentOrder ==
    /\ verIn.op = "compare"
    /\ verOut.done
    /\ SameScheme({verIn.a, verIn.b})
    => verOut.ab = ComponentOrder(verIn.a, verIn.b)

\* the same statement for the two schemes that have a comparison of their own
C26_SemverCalverOrder ==
    /\ verIn.op = "compare"
    /\ verOut.done
    /\ SameScheme({verIn.a, verIn.b})
    /\ detect_scheme(verIn.a) \in {"semver", "calver"}
    => verOut.ab = ComponentOrder(verIn.a, verIn.b)

\* 1.10 and 1.9 are both pep440 and compare as strings
C26_StringOrderReached ==
    /\ verIn.op = "compare"
    /\ verOut.done
    /\ verIn.a = <<"1", ".", "1", "0">>
    /\ verIn.b = <<"1", ".", "9">>
    /\ detect_scheme(verIn.a) = "pep440"
    /\ detect_scheme(verIn.b) = "pep440"
    /\ verOut.ab = -1

\* CPEMatcher._parse_cpe_string, ai_matching/cpe_matcher.py:114-128: the
\* version of a CPE 2.3 string is parts[5]; <<>> stands for None
parse_cpe_string(cpe_string) ==
    LET parts == Split(cpe_string, ":")
    IN  IF Len(parts) < 6 THEN <<>>
        ELSE <<[cpe_string |-> cpe_string, vendor |-> parts[4], product |-> parts[5],
                version |-> parts[6]]>>

\* the version field of a candidate, <<>> when it carries none
VersionField(cpe_string) ==
    LET parsed == parse_cpe_string(cpe_string)
    IN  IF parsed = <<>> \/ parsed[1].version = <<"*">> THEN <<>> ELSE parsed[1].version

\* what the tiers give for a version and a version field
TierOf(v, field) ==
    IF field = <<>> THEN [matches |-> TRUE, confidence |-> Frac(1, 2)]
    ELSE IF v = field THEN [matches |-> TRUE, confidence |-> Frac(1, 1)]
    ELSE IF matches_version(v, field) THEN [matches |-> TRUE, confidence |-> Frac(9, 10)]
    ELSE LET similarity == calculate_version_similarity(v, field)
         IN  [matches |-> FracGt(similarity, Frac(7, 10)), confidence |-> similarity]

\* C25: match_cpe_version returns (true, 1.0) when the version is
\* string-equal to the candidate's version field, (true, 0.9) when it differs
\* but satisfies that field as a range, (true, 0.5) when the candidate
\* carries no version (wildcard), and otherwise the digit-run similarity with
\* version_matches true only when that score exceeds 0.7.
C25_VersionConfidenceTiers ==
    verIn.op = "match_cpe" /\ verOut.done =>
        LET tier == TierOf(verIn.version, VersionField(verIn.cpe))
        IN  /\ verOut.ret.matches = tier.matches
            /\ FracEq(verOut.ret.confidence, tier.confidence)

\* the tiers hold for the field the code reads, parts[4]
C25_TiersOfFieldRead ==
    verIn.op = "match_cpe" /\ verOut.done =>
        LET read == IF verIn.cpe \in {<<>>, <<"*">>} THEN <<>>
                    ELSE extract_cpe_versions(verIn.cpe)
            tier == TierOf(verIn.version, IF read = <<>> THEN <<>> ELSE read[1])
        IN  /\ verOut.ret.matches = tier.matches
            /\ FracEq(verOut.ret.confidence, tier.confidence)

\* the version equals the version field of the CPE 2.3 string, and the call
\* returned 0.9 for the product field
C25_ExactGivesRangeConfidence ==
    /\ verIn.op = "match_cpe"
    /\ verOut.done
    /\ VersionField(verIn.cpe) = verIn.version
    /\ extract_cpe_versions(verIn.cpe) = <<<<"n", "g", "i", "n", "x">>>>
    /\ verOut.ret = [matches |-> TRUE, confidence |-> Frac(9, 10)]

\* the similarity branch: 1.2.3 against ">1.2.4" scores 2.5 of 3
C25_SimilarityReached ==
    /\ verIn.op = "match_cpe"
    /\ verOut.done
    /\ verOut.ret.matches
    /\ FracEq(verOut.ret.confidence, Frac(5, 6))

(***************************************************************************)
(* CPEMatcher, ai_matching/cpe_matcher.py:144-227, and the identifier the  *)
(* pipeline takes in EnrichmentService._find_cpe.  The TF-IDF index is     *)
(* taken as the rows it yields for the query, most similar first, with the *)
(* cosine similarity in thousandths.  None is the empty string.            *)
(***************************************************************************)
MaxRows == 2
Similarities == {50, 300, 650, 950}
CandidateCpes == {
    <<"c", "p", "e", ":", "2", ".", "3", ":", "a", ":", "n", "g", "i", "n", "x", ":", "n", "g", "i", "n", "x", ":", "1", ".", "2", ".", "3">>,   \* cpe:2.3:a:nginx:nginx:1.2.3
    <<"c", "p", "e", ":", "2", ".", "3", ":", "a", ":", "n", "g", "i", "n", "x", ":", "*", ":", "1", ".", "2", ".", "3">>,   \* cpe:2.3:a:nginx:*:1.2.3
    <<"c", "p", "e", ":", "2", ".", "3", ":", "a", ":", "n", "g", "i", "n", "x", ":", ">", "=", "3", ".", "0", ".", "0", ":", "1", ".", "2", ".", "3">>    \* cpe:2.3:a:nginx:>=3.0.0:1.2.3
    }
QueryVersions == {<<>>, <<"1", ".", "2", ".", "3">>}

\* the rows in the order of top_indices (line 161)
RankedRows ==
    {r \in UNION {[1..n -> [cpe_string : CandidateCpes, similarity : Similarities]] : n \in 0..MaxRows} :
        \A n \in 1..(Len(r) - 1) : r[n].similarity >= r[n + 1].similarity}

\* CPEMatcher._match_version_range
match_version_range(software_version, cpe_version, cpe_string) ==
    IF software_version = <<>> \/ cpe_version = <<>>
    THEN [matches |-> TRUE, confidence |-> Frac(1, 2)]
    ELSE match_cpe_version(software_version, cpe_string)

RECURSIVE Gcd(_, _)
Gcd(a, b) == IF b = 0 THEN a ELSE Gcd(b, a % b)
\* a fraction in lowest terms
Lowest(x) == LET g == Gcd(x.num, x.den) IN Frac(x.num \div g, x.den \div g)

\* CPEMatcher._calculate_confidence
calculate_confidence(score) ==
    IF FracGt(score, Frac(8, 10)) THEN "HIGH"
    ELSE IF FracGt(score, Frac(6, 10)) THEN "MEDIUM"
    ELSE IF FracGt(score, Frac(4, 10)) THEN "LOW"
    ELSE "VERY_LOW"

\* the entry appended for one row and its version match (lines 166-181)
MatchEntry(row, vm, combined_confidence) ==
    [cpe_string |-> row.cpe_string,
     similarity_score |-> row.similarity,
     version_match |-> vm.matches,
     version_confidence |-> vm.confidence,
     combined_confidence |-> combined_confidence,
     confidence |-> calculate_confidence(combined_confidence)]

\* (similarities[idx] * 0.6) + (version_confidence * 0.4), line 175
CombinedConfidence(similarity, version_confidence) ==
    Lowest(Frac(6 * similarity * version_confidence.den + 4000 * version_confidence.num,
                10000 * version_confidence.den))

\* the entry of one row, given its version match
ScoredWith(row, vm) == MatchEntry(row, vm, CombinedConfidence(row.similarity, vm.confidence))

\* the body of the loop of match_software_to_cpe for one row (lines 166-181)
ScoredMatch(version, row) ==
    ScoredWith(row, match_version_range(version,
                                        parse_cpe_string(row.cpe_string)[1].version,
                                        row.cpe_string))

RECURSIVE SortByCombined(_)
\* matches.sort(key=combined_confidence, reverse=True): stable
SortByCombined(matches) ==
    IF matches = <<>> THEN <<>>
    ELSE LET sorted == SortByCombined(SubSeq(matches, 1, Len(matches) - 1))
             last == matches[Len(matches)]
             ahead == {n \in 1..Len(sorted) :
                          ~FracGt(last.combined_confidence, sorted[n].combined_confidence)}
             k == IF ahead = {} THEN 0 ELSE CHOOSE n \in ahead : \A m \in ahead : m <= n
         IN  SubSeq(sorted, 1, k) \o <<last>> \o SubSeq(sorted, k + 1, Len(sorted))

\* CPEMatcher.match_software_to_cpe
match_software_to_cpe(version, rows) ==
    LET top == Take(rows, 20)
        kept == SelectSeq(top, LAMBDA row : row.similarity > 100)
    IN  Take(SortByCombined([n \in 1..Len(kept) |-> ScoredMatch(version, kept[n])]), 10)

RECURSIVE FirstCompatible(_, _)
\* the loop of get_cpe_for_software (lines 216-220) from position n on
FirstCompatible(matches, n) ==
    IF n > Len(matches) THEN <<>>
    ELSE IF /\ matches[n].confidence \in {"HIGH", "MEDIUM"}
            /\ matches[n].version_match
            /\ FracGt(matches[n].version_confidence, Frac(1, 2))
    THEN matches[n].cpe_string
    ELSE FirstCompatible(matches, n + 1)

\* the choice of get_cpe_for_software among its matches (lines 212-227)
ChooseCpe(matches) ==
    IF matches = <<>> THEN <<>>
    ELSE IF FirstCompatible(matches, 1) # <<>> THEN FirstCompatible(matches, 1)
    ELSE IF matches[1].confidence \in {"HIGH", "MEDIUM"} THEN matches[1].cpe_string
    ELSE <<>>

\* CPEMatcher.get_cpe_for_software
get_cpe_for_software(version, rows) == ChooseCpe(match_software_to_cpe(version, rows))

\* what semantic_matcher.match_software sees in _find_cpe: L1 has no
\* candidate and the vector query returns the rows
SelectEnv ==
    [cpe_guesser_enabled |-> cpe_guesser_enabled,
     pgvector_enabled |-> pgvector_enabled,
     direct_raises |-> FALSE,
     order |-> <<>>,
     http_raises |-> FALSE,
     http_results |-> <<>>,
     model |-> TRUE,
     encode_raises |-> FALSE,
     db_raises |-> FALSE,
     vector_rows |-> selIn.rows]

(***************************************************************************)
(* SelectSpec: the identifier of one item, chosen by get_cpe_for_software  *)
(* (cve_enrichment.py:65) or by _find_cpe (enrichment.py:104).             *)
(***************************************************************************)
SelectSpecInit ==
    /\ selIn \in [version : QueryVersions, rows : RankedRows]
    /\ selOut = [done |-> FALSE, by |-> "", chosen |-> <<>>]
    /\ bat = <<>>
    /\ LruIdle
    /\ NetIdle
    /\ VersionIdle
    /\ CveIdle
    /\ CacheInit
    /\ enabled = TRUE
    /\ cacheOp = NoOp
    /\ MatchIdle
    /\ cpe_guesser_enabled = FALSE
    /\ pgvector_enabled = TRUE
    /\ max_concurrent_requests = MaxConcurrent
    /\ PipeIdle

SelectOthers == <<bat, lruVars, net, verIn, verOut, cveVars, cacheVars, cacheOp, matchVars,
                  settingVars, pipeVars>>

GetCpeForSoftware ==
    /\ ~selOut.done
    /\ selOut' = [done |-> TRUE, by |-> "get_cpe_for_software",
                  chosen |-> get_cpe_for_software(selIn.version, selIn.rows)]
    /\ UNCHANGED <<selIn, SelectOthers>>

FindCpe ==
    /\ ~selOut.done
    /\ LET found == find_cpe(<<"nginx">>, selIn.version, <<"nginx">>, SelectEnv)
       IN  selOut' = [done |-> TRUE, by |-> "_find_cpe",
                      chosen |-> IF found = "" THEN <<>> ELSE found]
    /\ UNCHANGED <<selIn, SelectOthers>>

SelectSpecNext ==
    \/ GetCpeForSoftware
    \/ FindCpe

SelectSpec == SelectSpecInit /\ [][SelectSpecNext]_vars

\* the candidates of the item, ranked and labelled
Ranked == match_software_to_cpe(selIn.version, selIn.rows)
Acceptable(m) == m.confidence \in {"HIGH", "MEDIUM"}
Preferred(m) ==
    Acceptable(m) /\ m.version_match /\ FracGt(m.version_confidence, Frac(1, 2))

\* the stated choice
RuleChoice(ranked) ==
    LET preferred == {n \in 1..Len(ranked) : Preferred(ranked[n])}
    IN  IF preferred # {}
        THEN ranked[CHOOSE n \in preferred : \A m \in preferred : n <= m].cpe_string
        ELSE IF ranked # <<>> /\ Acceptable(ranked[1]) THEN ranked[1].cpe_string
        ELSE <<>>

\* C24: the identifier chosen for an item is the first ranked candidate
\* whose label is HIGH or MEDIUM and whose version_matches is true with
\* version_confidence > 0.5; failing that the top-ranked candidate if its
\* label is HIGH or MEDIUM; otherwise none.  A candidate labelled LOW or
\* VERY_LOW is never chosen.
C24_IdentifierSelection ==
    selOut.done =>
        /\ selOut.chosen = RuleChoice(Ranked)
        /\ selOut.chosen # <<>> =>
              \E n \in 1..Len(Ranked) :
                 Ranked[n].cpe_string = selOut.chosen /\ Acceptable(Ranked[n])

\* the same statement for the choice of get_cpe_for_software alone
C24_GetCpeFollowsRule ==
    selOut.done /\ selOut.by = "get_cpe_for_software" =>
        selOut.chosen = RuleChoice(Ranked)

\* _find_cpe returned the only candidate, of similarity 0.3, which no
\* version confidence lifts to MEDIUM
C24_LowCandidateChosen ==
    /\ selOut.done
    /\ selOut.by = "_find_cpe"
    /\ Len(selIn.rows) = 1
    /\ selIn.rows[1].similarity = 300
    /\ selOut.chosen = selIn.rows[1].cpe_string
    /\ Len(Ranked) = 1
    /\ ~Acceptable(Ranked[1])

\* get_cpe_for_software passed over the top-ranked candidate, whose version
\* confidence is 0.5, for the second
C24_SecondCandidateChosen ==
    /\ selOut.done
    /\ selOut.by = "get_cpe_for_software"
    /\ Len(Ranked) = 2
    /\ Acceptable(Ranked[1])
    /\ ~Preferred(Ranked[1])
    /\ selOut.chosen = Ranked[2].cpe_string
    /\ selOut.chosen # Ranked[1].cpe_string

\* get_cpe_for_software fell back to the top-ranked candidate
C24_FallbackChosen ==
    /\ selOut.done
    /\ selOut.by = "get_cpe_for_software"
    /\ Ranked # <<>>
    /\ \A n \in 1..Len(Ranked) : ~Preferred(Ranked[n])
    /\ selOut.chosen = Ranked[1].cpe_string

(***************************************************************************)
(* BatchEnrichmentService, batch_enrichment.py:44-243.  bat holds          *)
(*   redis_client   self.redis_client is not None                          *)
(*   redis          the Redis data: key -> <<>> or <<[text, ttl]>>         *)
(*   now            the time, in units of which cache_ttl is CacheTtl      *)
(*   pc, apps, cached_results, uncached_apps, task, semaphore, results     *)
(*                  the process_batch call and its enrich_single tasks     *)
(*   run, read, wrote, computed, known                                     *)
(*                  history: the calls begun, whether mget and the setex   *)
(*                  pipeline of this call succeeded, the latest freshly    *)
(*                  computed result per app id, with the time of the call  *)
(*                  to cache_results and whether it wrote, and the ones of *)
(*                  them that were within the TTL when this call began     *)
(* Only cache_results writes the keys, so every cached text parses.  None  *)
(* is "".                                                                  *)
(***************************************************************************)
MaxInFlight == 1
CacheTtl == 2
MaxApps == 2
MaxRuns == 2
MaxBatchClock == 2

AppIds == {"a1", "a2"}
AppLists == UNION {[1..n -> AppIds] : n \in 1..MaxApps}

\* f"cve:app:{app.id}"
batch_cache_key(id) == <<"cve:app:", id>>
BatchKeys == {batch_cache_key(id) : id \in AppIds}

\* what get_cve_data returned, or that the try block of enrich_single raised
Outcomes == {"empty", "vulns", "raise"}
FoundVulnerability ==
    [cls |-> "Vulnerability", cve_id |-> "CVE-2021-23017", severity |-> "HIGH",
     cvss_score |-> 77, references |-> ""]

\* the EnrichmentResult of enrich_single (lines 208-214, 220-227)
EnrichmentResult(id, outcome, now) ==
    [app_id |-> id, company_id |-> "c1", agent_id |-> "g1",
     vulnerabilities |-> IF outcome = "vulns" THEN <<FoundVulnerability>> ELSE <<>>,
     enriched_at |-> [datetime |-> now],
     error |-> IF outcome = "raise" THEN "error" ELSE ""]

\* dataclasses.asdict(v) and Vulnerability(**vuln)
asdict(v) ==
    [cve_id |-> v.cve_id, severity |-> v.severity, cvss_score |-> v.cvss_score,
     references |-> v.references]
VulnerabilityOf(vuln) ==
    [cls |-> "Vulnerability", cve_id |-> vuln.cve_id, severity |-> vuln.severity,
     cvss_score |-> vuln.cvss_score, references |-> vuln.references]

\* json.dumps(data) of cache_results (lines 173-182)
DumpResult(result) ==
    [json |-> [app_id |-> result.app_id, company_id |-> result.company_id,
               agent_id |-> result.agent_id,
               vulnerabilities |-> [n \in 1..Len(result.vulnerabilities) |->
                                       asdict(result.vulnerabilities[n])],
               enriched_at |-> [iso |-> result.enriched_at.datetime],
               error |-> result.error]]

\* json.loads(cached_json) and the EnrichmentResult built from it (lines 136-150)
LoadResult(cached_json) ==
    LET data == cached_json.json
    IN  [app_id |-> data.app_id, company_id |-> data.company_id,
         agent_id |-> data.agent_id,
         vulnerabilities |-> [n \in 1..Len(data.vulnerabilities) |->
                                 VulnerabilityOf(data.vulnerabilities[n])],
         enriched_at |-> [datetime |-> data.enriched_at.iso],
         error |-> data.error]

NoEntries == [key \in BatchKeys |-> <<>>]
NoResults == [id \in AppIds |-> <<>>]

\* BatchEnrichmentService.get_cached_results: app id -> <<>> or <<result>>
get_cached_results(client, redis, apps, mget_raises) ==
    IF ~client \/ mget_raises THEN NoResults
    ELSE [id \in AppIds |->
            IF (\E n \in 1..Len(apps) : apps[n] = id) /\ redis[batch_cache_key(id)] # <<>>
            THEN <<LoadResult(redis[batch_cache_key(id)][1].text)>>
            ELSE <<>>]

\* variant: a result that carries an error is not written
cache_results_skipping_errors(client, redis, gathered, execute_raises) ==
    IF ~client \/ execute_raises THEN redis
    ELSE [key \in BatchKeys |->
            LET ids == {id \in AppIds : batch_cache_key(id) = key
                                          /\ gathered[id] # <<>>
                                          /\ gathered[id][1].error = ""}
            IN  IF ids = {} THEN redis[key]
                ELSE <<[text |-> DumpResult(gathered[CHOOSE id \in ids : TRUE][1]),
                        ttl |-> CacheTtl]>>]

\* BatchEnrichmentService.cache_results: the Redis data after the call
cache_results(client, redis, gathered, execute_raises) ==
    IF ~client \/ execute_raises THEN redis
    ELSE [key \in BatchKeys |->
            LET ids == {id \in AppIds : batch_cache_key(id) = key
                                          /\ gathered[id] # <<>>}
            IN  IF ids = {} THEN redis[key]
                ELSE <<[text |-> DumpResult(gathered[CHOOSE id \in ids : TRUE][1]),
                        ttl |-> CacheTtl]>>]

\* the dict built from the gathered results (lines 235-241): a later task
\* of the same app id replaces an earlier one
EnrichedResults(uncached_apps, tasks) ==
    [id \in AppIds |->
        LET at == {n \in 1..Len(uncached_apps) : uncached_apps[n] = id}
        IN  IF at = {} THEN <<>>
            ELSE <<tasks[CHOOSE n \in at : \A m \in at : m <= n].result>>]

\* {**cached_results, **enriched_results}
Combine(cached, gathered) ==
    [id \in AppIds |-> IF gathered[id] # <<>> THEN gathered[id] ELSE cached[id]]

\* BatchEnrichmentService.__init__
NewService ==
    [redis_client |-> FALSE, redis |-> NoEntries, now |-> 0,
     pc |-> "idle", apps |-> <<>>, cached_results |-> NoResults, uncached_apps |-> <<>>,
     task |-> <<>>, semaphore |-> 0, results |-> <<>>,
     run |-> 0, read |-> FALSE, wrote |-> FALSE, computed |-> NoResults, known |-> NoResults]

(***************************************************************************)
(* BatchSpec: process_batch calls one after another on one service.        *)
(***************************************************************************)
BatchSpecInit ==
    /\ bat = NewService
    /\ SelIdle
    /\ LruIdle
    /\ NetIdle
    /\ VersionIdle
    /\ CveIdle
    /\ CacheInit
    /\ enabled = TRUE
    /\ cacheOp = NoOp
    /\ MatchIdle
    /\ cpe_guesser_enabled = TRUE
    /\ pgvector_enabled = TRUE
    /\ max_concurrent_requests = MaxConcurrent
    /\ PipeIdle

BatchOthers == <<selIn, selOut, lruVars, net, verIn, verOut, cveVars, cacheVars, cacheOp,
                 matchVars, settingVars, pipeVars>>

\* BatchEnrichmentService.initialize
BatchInitialize ==
    /\ bat.pc = "idle"
    /\ ~bat.redis_client
    /\ bat' = [bat EXCEPT !.redis_client = TRUE]
    /\ UNCHANGED BatchOthers

\* the freshly computed results that are younger than the TTL
WithinTtl(computed, now) ==
    [id \in AppIds |->
        IF computed[id] # <<>> /\ now - computed[id][1].at < CacheTtl
        THEN computed[id] ELSE <<>>]

\* process_batch up to the gather of enrich_apps_parallel (lines 88-97,
\* 197-232), or to its return when every app was cached (lines 105-113)
BatchBegin(apps, mget_raises) ==
    /\ bat.pc \in {"idle", "returned"}
    /\ bat.run < MaxRuns
    /\ mget_raises => bat.redis_client
    /\ LET cached_results == get_cached_results(bat.redis_client, bat.redis, apps, mget_raises)
           uncached_apps == SelectSeq(apps, LAMBDA id : cached_results[id] = <<>>)
       IN  bat' = [bat EXCEPT
                     !.run = bat.run + 1,
                     !.read = bat.redis_client /\ ~mget_raises,
                     !.wrote = FALSE,
                     !.known = WithinTtl(bat.computed, bat.now),
                     !.apps = apps,
                     !.cached_results = cached_results,
                     !.uncached_apps = uncached_apps,
                     !.task = [n \in 1..Len(uncached_apps) |->
                                 [pc |-> "waiting", calls |-> 0,
                                  result |-> EnrichmentResult(uncached_apps[n], "empty", 0)]],
                     !.semaphore = MaxInFlight,
                     !.results = IF uncached_apps = <<>>
                                 THEN [n \in 1..Len(apps) |-> cached_results[apps[n]][1]]
                                 ELSE <<>>,
                     !.pc = IF uncached_apps = <<>> THEN "returned" ELSE "gather"]
    /\ UNCHANGED BatchOthers

\* enrich_single enters "async with semaphore" (line 200)
TaskAcquire(n) ==
    /\ bat.pc = "gather"
    /\ n \in 1..Len(bat.task)
    /\ bat.task[n].pc = "waiting"
    /\ bat.semaphore > 0
    /\ bat' = [bat EXCEPT !.semaphore = bat.semaphore - 1, !.task[n].pc = "running"]
    /\ UNCHANGED BatchOthers

\* enrich_single sleeps, calls get_cve_data and returns (lines 201-228)
TaskFinish(n, outcome) ==
    /\ bat.pc = "gather"
    /\ n \in 1..Len(bat.task)
    /\ bat.task[n].pc = "running"
    /\ bat' = [bat EXCEPT
                 !.semaphore = bat.semaphore + 1,
                 !.task[n] = [pc |-> "done",
                              calls |-> bat.task[n].calls + 1,
                              result |-> EnrichmentResult(bat.uncached_apps[n], outcome, bat.now)]]
    /\ UNCHANGED BatchOthers

\* the gather is over: cache_results, the combination and the return
\* (lines 234-243, 100-113)
BatchReturn(execute_raises) ==
    /\ bat.pc = "gather"
    /\ \A n \in 1..Len(bat.task) : bat.task[n].pc = "done"
    /\ execute_raises => bat.redis_client
    /\ LET gathered == EnrichedResults(bat.uncached_apps, bat.task)
           all_results == Combine(bat.cached_results, gathered)
       IN  bat' = [bat EXCEPT
                     !.redis = cache_results(bat.redis_client, bat.redis, gathered,
                                             execute_raises),
                     !.wrote = bat.redis_client /\ ~execute_raises,
                     !.computed = [id \in AppIds |->
                                     IF gathered[id] # <<>>
                                     THEN <<[result |-> gathered[id][1], at |-> bat.now,
                                             written |-> bat.redis_client /\ ~execute_raises]>>
                                     ELSE bat.computed[id]],
                     !.results = [n \in 1..Len(bat.apps) |-> all_results[bat.apps[n]][1]],
                     !.pc = "returned"]
    /\ UNCHANGED BatchOthers

\* a unit of time passes between two calls (a call is short against the
\* TTL); Redis drops the keys whose TTL is over
BatchTick ==
    /\ bat.pc # "gather"
    /\ bat.now < MaxBatchClock
    /\ bat' = [bat EXCEPT
                 !.now = bat.now + 1,
                 !.redis = [key \in BatchKeys |->
                              IF bat.redis[key] = <<>> \/ bat.redis[key][1].ttl = 1 THEN <<>>
                              ELSE <<[bat.redis[key][1] EXCEPT !.ttl = @ - 1]>>]]
    /\ UNCHANGED BatchOthers

BatchSpecNext ==
    \/ BatchInitialize
    \/ \E apps \in AppLists, mget_raises \in BOOLEAN : BatchBegin(apps, mget_raises)
    \/ \E n \in 1..MaxApps : TaskAcquire(n)
    \/ \E n \in 1..MaxApps, outcome \in Outcomes : TaskFinish(n, outcome)
    \/ \E execute_raises \in BOOLEAN : BatchReturn(execute_raises)
    \/ BatchTick

BatchSpec == BatchSpecInit /\ [][BatchSpecNext]_vars

\* one result per app, in the order of the apps
OnePerApp ==
    bat.pc = "returned" =>
        /\ Len(bat.results) = Len(bat.apps)
        /\ \A n \in 1..Len(bat.apps) : bat.results[n].app_id = bat.apps[n]

\* the apps passed to enrichment are the ones that were not found in the cache
CachedNotEnriched ==
    bat.pc \in {"gather", "returned"} =>
        /\ Len(bat.task) = Len(bat.uncached_apps)
        /\ \A n \in 1..Len(bat.uncached_apps) : bat.cached_results[bat.uncached_apps[n]] = <<>>
        /\ \A n \in 1..Len(bat.apps) :
              bat.cached_results[bat.apps[n]] = <<>> =>
                 \E m \in 1..Len(bat.uncached_apps) : bat.uncached_apps[m] = bat.apps[n]
        /\ Len(bat.uncached_apps) =
              Cardinality({n \in 1..Len(bat.apps) : bat.cached_results[bat.apps[n]] = <<>>})

\* every app passed to enrichment is enriched exactly once
EnrichedOnce ==
    \A n \in 1..Len(bat.task) :
        /\ bat.task[n].calls <= 1
        /\ bat.task[n].pc = "done" <=> bat.task[n].calls = 1
        /\ bat.pc = "returned" => bat.task[n].calls = 1

InFlight == {n \in 1..Len(bat.task) : bat.task[n].pc = "running"}
InFlightBounded == Cardinality(InFlight) <= MaxInFlight

\* the cache holds a freshly computed result for the TTL
Cached(entry) ==
    /\ bat.redis[batch_cache_key(entry.result.app_id)] # <<>>
    /\ LoadResult(bat.redis[batch_cache_key(entry.result.app_id)][1].text) = entry.result

FreshWritten ==
    \A id \in AppIds :
        (bat.computed[id] # <<>> /\ bat.now - bat.computed[id][1].at < CacheTtl)
            => Cached(bat.computed[id][1])

FreshWrittenByRedis ==
    \A id \in AppIds :
        (/\ bat.computed[id] # <<>>
         /\ bat.computed[id][1].written
         /\ bat.now - bat.computed[id][1].at < CacheTtl)
            => Cached(bat.computed[id][1])

\* a call within the TTL returns the computed result without enriching again
Reused(n) ==
    /\ bat.cached_results[bat.apps[n]] = <<bat.known[bat.apps[n]][1].result>>
    /\ \A m \in 1..Len(bat.uncached_apps) : bat.uncached_apps[m] # bat.apps[n]
    /\ bat.pc = "returned" => bat.results[n] = bat.known[bat.apps[n]][1].result

SecondCallReuses ==
    bat.pc \in {"gather", "returned"} =>
        \A n \in 1..Len(bat.apps) : bat.known[bat.apps[n]] # <<>> => Reused(n)

SecondCallReusesByRedis ==
    bat.pc \in {"gather", "returned"} /\ bat.read =>
        \A n \in 1..Len(bat.apps) :
            (bat.known[bat.apps[n]] # <<>> /\ bat.known[bat.apps[n]][1].written) => Reused(n)

\* C30: process_batch returns exactly one result per input app, index-aligned
\* with the input; apps found in the cache are never passed to enrichment,
\* every other app is enriched exactly once with at most max_concurrent apps
\* in flight, and every freshly computed result, one that carries an error
\* with an empty vulnerability list included, is written to the cache so that
\* a second process_batch within the TTL returns it without re-enriching.
C30_ProcessBatch ==
    /\ OnePerApp
    /\ CachedNotEnriched
    /\ EnrichedOnce
    /\ InFlightBounded
    /\ FreshWritten
    /\ SecondCallReuses

\* C30 as the code has it: the results are written when the Redis client is
\* set and the setex pipeline executes, and they are reused by a call whose
\* mget succeeds.
C30_ProcessBatchOverRedis ==
    /\ OnePerApp
    /\ CachedNotEnriched
    /\ EnrichedOnce
    /\ InFlightBounded
    /\ FreshWrittenByRedis
    /\ SecondCallReusesByRedis

\* the second call returned the error result that the first call computed
\* and wrote, without a task
C30_Witness ==
    /\ bat.run = 2
    /\ bat.pc = "returned"
    /\ bat.read
    /\ bat.task = <<>>
    /\ bat.apps # <<>>
    /\ bat.known[bat.apps[1]] # <<>>
    /\ bat.known[bat.apps[1]][1].written
    /\ bat.results[1] = bat.known[bat.apps[1]][1].result
    /\ bat.results[1].error # ""
    /\ bat.results[1].vulnerabilities = <<>>

\* more apps than max_concurrent were passed to enrichment and one waits
\* for the semaphore
C30_TaskWaits ==
    /\ bat.pc = "gather"
    /\ Cardinality(InFlight) = MaxInFlight
    /\ \E n \in 1..Len(bat.task) : bat.task[n].pc = "waiting"

====
